---- MODULE Spec2Model ----
(***************************************************************************)
(* Battleship (FirazKhan/Python-Battleship_game_Gui): the boards, the      *)
(* fleets, the placement validator, the computer player's targeting and    *)
(* the two front ends (the console GameLoop and the GUI's make_move).      *)
(* Coordinates are (row, column), both counted from 0 as in the source.    *)
(***************************************************************************)
EXTENDS Integers, Sequences, FiniteSets, TLC

\* config['board_size'] (Battleship_Game.py line 12); the model's board.
BOARD_SIZE == 4

\* The human attacks one of the first HumanLookahead cells not yet attacked, in
\* row-major order, or re-enters one of the first HumanRepeats cells already attacked.
HumanLookahead == 1
HumanRepeats == 1

\* The lengths the validator is called with in the validator's harness: 1 .. MaxLength.
MaxLength == 5

\* Of the BOARD_SIZE * BOARD_SIZE origins a placement can be entered or drawn at,
\* the games of the model use the first HumanOriginCount (going down the columns)
\* for the human and the first ComputerOriginCount (going along the rows) for the
\* computer's random draws; the harnesses place at the first UnitOriginCount
\* origins of UnitOriginOrder. From the third origin of either list a Cruiser
\* runs off the board in one orientation, and with the computer's third origin
\* some fleets leave the cell (0, 0) as water.
HumanOriginCount == 3
ComputerOriginCount == 3
UnitOriginCount == 2

\* Of the cells get_move can draw, the harness draws the first GetMoveDrawCount.
GetMoveDrawCount == 2

\* deploy_ship called on its own records at most MaxRecorded coordinates in all;
\* a grid marked by hand is marked on the first MarkCount cells of MarkOrder;
\* the validator is asked about origins whose row and column are on the board
\* or the index OffBoardIndex past its edge.
MaxRecorded == 3
MarkCount == 3
OffBoardIndex == 6

\* config['ships'] (line 10): an insertion-ordered dict, ship name -> length.
SHIP_TYPES ==
    << [ship |-> "Cruiser", length |-> 3], [ship |-> "Destroyer", length |-> 2] >>

Idx == 0 .. (BOARD_SIZE - 1)
Cells == Idx \X Idx
None == << >>
HUMAN == 0
COMPUTER == 1
Players == {HUMAN, COMPUTER}

\* ShipManager.__init__: a grid of " " and an empty ship_locations dict.
EmptyGrid == [r \in Idx |-> [c \in Idx |-> " "]]

Attacked(grid, r, c) == grid[r][c] \in {"-", "X"}

InBoard(r, c) == r \in Idx /\ c \in Idx

(***************************************************************************)
(* ShipManager                                                             *)
(***************************************************************************)

\* A deploy_ship whose ranges stop one cell early.
Run_short(length, row, column, orientation) ==
    IF orientation = "H"
    THEN [i \in 1 .. (length - 1) |-> <<row, column + i - 1>>]
    ELSE [i \in 1 .. (length - 1) |-> <<row + i - 1, column>>]

\* The cells deploy_ship walks, in the order it walks them.
Run(length, row, column, orientation) ==
    IF orientation = "H"
    THEN [i \in 1 .. length |-> <<row, column + i - 1>>]
    ELSE [i \in 1 .. length |-> <<row + i - 1, column>>]

SetCell(grid, r, c, v) == [grid EXCEPT ![r][c] = v]

RECURSIVE MarkAll(_, _, _)
MarkAll(grid, cells, k) ==
    IF k > Len(cells) THEN grid
    ELSE MarkAll(SetCell(grid, cells[k][1], cells[k][2], "X"), cells, k + 1)

\* deploy_ship, the grid: every cell of the run becomes "X".
DeployGrid(grid, length, row, column, orientation) ==
    MarkAll(grid, Run(length, row, column, orientation), 1)

KeyIndex(locs, ship) ==
    IF \E k \in DOMAIN locs : locs[k].ship = ship
    THEN CHOOSE k \in DOMAIN locs : locs[k].ship = ship
    ELSE 0

\* ship_locations.setdefault(ship, []).append(cell)
AppendLoc(locs, ship, cell) ==
    LET k == KeyIndex(locs, ship) IN
    IF k = 0
    THEN Append(locs, [ship |-> ship, positions |-> <<cell>>])
    ELSE [locs EXCEPT ![k].positions = Append(@, cell)]

RECURSIVE AppendAll(_, _, _, _)
AppendAll(locs, ship, cells, k) ==
    IF k > Len(cells) THEN locs
    ELSE AppendAll(AppendLoc(locs, ship, cells[k]), ship, cells, k + 1)

\* deploy_ship, the dict: the run's coordinates are appended to the ship's list.
DeployLocs(locs, ship, length, row, column, orientation) ==
    AppendAll(locs, ship, Run(length, row, column, orientation), 1)

\* The number of cells deploy_ship gets through from an origin on the board:
\* the whole run when it fits, else the cells up to the edge, where the next
\* index raises IndexError (deploy_ship has no try) with the cells before it
\* already marked and recorded.
Reach(length, row, column, orientation) ==
    LET room == IF orientation = "H" THEN BOARD_SIZE - column ELSE BOARD_SIZE - row
    IN  IF length <= room THEN length ELSE room

\* deploy_ship (lines 45-53) as a caller outside the game may call it: any ship
\* name, any length, no validation.
deploy_ship(grid, locs, ship, length, row, column, orientation) ==
    LET reach == Reach(length, row, column, orientation)
    IN  [grid |-> DeployGrid(grid, reach, row, column, orientation),
         locs |-> DeployLocs(locs, ship, reach, row, column, orientation),
         raised |-> reach < length]

InSeq(s, x) == \E k \in DOMAIN s : s[k] = x

\* list.remove(x): the first occurrence goes.
RemoveFirst(s, x) ==
    LET k == CHOOSE j \in DOMAIN s : s[j] = x /\ \A i \in 1 .. (j - 1) : s[i] # x
    IN  SubSeq(s, 1, k - 1) \o SubSeq(s, k + 1, Len(s))

DeleteAt(s, k) == SubSeq(s, 1, k - 1) \o SubSeq(s, k + 1, Len(s))

\* check_sunk_ship's loop from entry k on: a ship holding the cell loses it; a
\* ship left with no cell is deleted and the loop breaks.
RECURSIVE SunkLoop(_, _, _)
SunkLoop(locs, cell, k) ==
    IF k > Len(locs) THEN locs
    ELSE IF InSeq(locs[k].positions, cell)
         THEN LET rest == RemoveFirst(locs[k].positions, cell) IN
              IF rest = << >>
              THEN DeleteAt(locs, k)
              ELSE SunkLoop([locs EXCEPT ![k].positions = rest], cell, k + 1)
         ELSE SunkLoop(locs, cell, k + 1)

\* A check_sunk_ship that never deletes a ship: the del is missing.
RECURSIVE KeepLoop(_, _, _)
KeepLoop(locs, cell, k) ==
    IF k > Len(locs) THEN locs
    ELSE IF InSeq(locs[k].positions, cell)
         THEN KeepLoop([locs EXCEPT ![k].positions = RemoveFirst(@, cell)], cell, k + 1)
         ELSE KeepLoop(locs, cell, k + 1)

check_sunk_ship_keep(locs, row, column) == KeepLoop(locs, <<row, column>>, 1)

\* A check_sunk_ship whose test is inverted ("if positions:"): a ship is deleted
\* while it still has coordinates.
RECURSIVE EarlyLoop(_, _, _)
EarlyLoop(locs, cell, k) ==
    IF k > Len(locs) THEN locs
    ELSE IF InSeq(locs[k].positions, cell)
         THEN LET rest == RemoveFirst(locs[k].positions, cell) IN
              IF rest # << >>
              THEN DeleteAt(locs, k)
              ELSE EarlyLoop([locs EXCEPT ![k].positions = rest], cell, k + 1)
         ELSE EarlyLoop(locs, cell, k + 1)

check_sunk_ship_early(locs, row, column) == EarlyLoop(locs, <<row, column>>, 1)

\* A check_sunk_ship that registers nothing: the fleet is returned as it is.
check_sunk_ship_idle(locs, row, column) == locs

check_sunk_ship(locs, row, column) == SunkLoop(locs, <<row, column>>, 1)

\* all(not positions for positions in ship_locations.values())
all_ships_sunk(locs) == \A k \in DOMAIN locs : locs[k].positions = << >>

(***************************************************************************)
(* BoardValidator                                                          *)
(***************************************************************************)

\* A validate_placement that compares with < instead of <=.
validate_placement_strict(length, row, column, orientation) ==
    IF orientation = "H"
    THEN column + length < BOARD_SIZE
    ELSE row + length < BOARD_SIZE

validate_placement(length, row, column, orientation) ==
    IF orientation = "H"
    THEN column + length <= BOARD_SIZE
    ELSE row + length <= BOARD_SIZE

\* any(grid[..] == "X" for i in range(from, to)): "True" at the first ship cell,
\* "IndexError" when the index leaves the grid first, "False" at the end.
RECURSIVE AnyShip(_, _, _, _, _)
AnyShip(grid, row, column, orientation, left) ==
    IF left = 0 THEN "False"
    ELSE IF ~InBoard(row, column) THEN "IndexError"
    ELSE IF grid[row][column] = "X" THEN "True"
    ELSE IF orientation = "H"
         THEN AnyShip(grid, row, column + 1, orientation, left - 1)
         ELSE AnyShip(grid, row + 1, column, orientation, left - 1)

\* A check_overlap whose except clause answers False.
check_overlap_open(grid, row, column, orientation, length) ==
    AnyShip(grid, row, column, orientation, length) = "True"

\* check_overlap: the try block's value, True on IndexError.
check_overlap(grid, row, column, orientation, length) ==
    LET found == AnyShip(grid, row, column, orientation, length) IN
    IF found = "IndexError" THEN TRUE ELSE found = "True"

(***************************************************************************)
(* BasePlayer, ComputerPlayer                                              *)
(***************************************************************************)

NoDirection == "None"

\* can_place_ship: the run fits and none of its cells was attacked.
can_place_ship(attack, row, col, length, orientation) ==
    IF orientation = "H"
    THEN IF col + length > BOARD_SIZE THEN FALSE
         ELSE \A i \in 0 .. (length - 1) : ~Attacked(attack, row, col + i)
    ELSE IF row + length > BOARD_SIZE THEN FALSE
         ELSE \A i \in 0 .. (length - 1) : ~Attacked(attack, row + i, col)

\* The iterations (ship, orientation, offset) of update_probability_map's second
\* loop that increment the cell (r, c): the run starts offset cells before it
\* and passes the can_place_ship test.
Increments(attack, r, c) ==
    { t \in (DOMAIN SHIP_TYPES) \X {"H", "V"} \X (0 .. (BOARD_SIZE - 1)) :
        LET length == SHIP_TYPES[t[1]].length
            row == IF t[2] = "H" THEN r ELSE r - t[3]
            col == IF t[2] = "H" THEN c - t[3] ELSE c
        IN  /\ t[3] < length
            /\ InBoard(row, col)
            /\ can_place_ship(attack, row, col, length, t[2]) }

\* An update_probability_map without the test for attacked cells in its first loop.
update_probability_map_unmarked(attack) ==
    [r \in Idx |-> [c \in Idx |-> 1 + Cardinality(Increments(attack, r, c))]]

\* update_probability_map: 0 on an attacked cell; elsewhere 1, plus 1 for every
\* iteration of the second loop that increments the cell.
update_probability_map(attack) ==
    [r \in Idx |-> [c \in Idx |->
        IF Attacked(attack, r, c) THEN 0
        ELSE 1 + Cardinality(Increments(attack, r, c))]]

ZeroMap == [r \in Idx |-> [c \in Idx |-> 0]]

\* np.argmax over the flattened map from flat index k on: a later cell replaces
\* the best one only when its weight is strictly greater.
RECURSIVE ArgMaxScan(_, _, _, _)
ArgMaxScan(pm, k, best, bestWeight) ==
    IF k >= BOARD_SIZE * BOARD_SIZE THEN best
    ELSE LET cell == <<k \div BOARD_SIZE, k % BOARD_SIZE>>
             weight == pm[cell[1]][cell[2]]
         IN  IF weight > bestWeight
             THEN ArgMaxScan(pm, k + 1, cell, weight)
             ELSE ArgMaxScan(pm, k + 1, best, bestWeight)

\* A scan that lets a later cell of equal weight replace the best one.
RECURSIVE ArgMaxScan_last(_, _, _, _)
ArgMaxScan_last(pm, k, best, bestWeight) ==
    IF k >= BOARD_SIZE * BOARD_SIZE THEN best
    ELSE LET cell == <<k \div BOARD_SIZE, k % BOARD_SIZE>>
             weight == pm[cell[1]][cell[2]]
         IN  IF weight >= bestWeight
             THEN ArgMaxScan_last(pm, k + 1, cell, weight)
             ELSE ArgMaxScan_last(pm, k + 1, best, bestWeight)

\* An argmax that looks at no weight and returns the first cell of the board.
ArgMax_origin(pm) == <<0, 0>>

\* An argmax that returns the last maximum in row-major order.
ArgMax_last(pm) == ArgMaxScan_last(pm, 1, <<0, 0>>, pm[0][0])

\* np.unravel_index(np.argmax(map), map.shape): the first maximum in row-major order.
ArgMax(pm) == ArgMaxScan(pm, 1, <<0, 0>>, pm[0][0])

\* The list comprehensions of take_turn: in bounds and not attacked, order kept.
FilterMoves(attack, moves) ==
    SelectSeq(moves, LAMBDA m : InBoard(m[1], m[2]) /\ ~Attacked(attack, m[1], m[2]))

Min(a, b) == IF a <= b THEN a ELSE b
Max(a, b) == IF a >= b THEN a ELSE b

\* A take_turn whose list of adjacent positions lacks the left neighbour.
AdjacentMoves_noleft(last, dir) ==
    LET row == last[1]
        column == last[2]
    IN  IF dir # NoDirection
        THEN IF dir = "H"
             THEN << <<row, column - 1>>, <<row, column + 1>> >>
             ELSE << <<row - 1, column>>, <<row + 1, column>> >>
        ELSE << <<row - 1, column>>, <<row + 1, column>>, <<row, column + 1>> >>

\* A take_turn that mixes up the axes of a known direction.
AdjacentMoves_crossed(last, dir) ==
    LET row == last[1]
        column == last[2]
    IN  IF dir # NoDirection
        THEN IF dir = "H"
             THEN << <<row - 1, column>>, <<row + 1, column>> >>
             ELSE << <<row, column - 1>>, <<row, column + 1>> >>
        ELSE << <<row - 1, column>>, <<row + 1, column>>,
                <<row, column - 1>>, <<row, column + 1>> >>

\* The moves take_turn looks at around last_hit (lines 180-183 and 201).
AdjacentMoves(last, dir) ==
    LET row == last[1]
        column == last[2]
    IN  IF dir # NoDirection
        THEN IF dir = "H"
             THEN << <<row, column - 1>>, <<row, column + 1>> >>
             ELSE << <<row - 1, column>>, <<row + 1, column>> >>
        ELSE << <<row - 1, column>>, <<row + 1, column>>,
                <<row, column - 1>>, <<row, column + 1>> >>

\* A reset that forgets to clear the direction.
ResetAndProbability_direction(cp, mode) ==
    LET pm == update_probability_map(cp.attack) IN
    [cell |-> ArgMax(pm), mode |-> mode, last_hit |-> None,
     direction |-> cp.direction, hit_stack |-> << >>, probability_map |-> pm]

\* The reset of lines 194-198 and 209-213, then the probability map's maximum.
ResetAndProbability(cp, mode) ==
    LET pm == update_probability_map(cp.attack) IN
    [cell |-> ArgMax(pm), mode |-> mode, last_hit |-> None,
     direction |-> NoDirection, hit_stack |-> << >>, probability_map |-> pm]

\* A take_turn that pops the newest entry of hit_stack (pop() for pop(0)).
SelectTarget_newest(cp) ==
    IF cp.hit_stack # << >>
    THEN { [cell |-> cp.hit_stack[Len(cp.hit_stack)], mode |-> "queue",
            last_hit |-> cp.last_hit, direction |-> cp.direction,
            hit_stack |-> SubSeq(cp.hit_stack, 1, Len(cp.hit_stack) - 1),
            probability_map |-> cp.probability_map] }
    ELSE IF cp.last_hit # None
    THEN LET possible_moves ==
                 FilterMoves(cp.attack, AdjacentMoves(cp.last_hit, cp.direction))
         IN  IF possible_moves # << >>
             THEN { [cell |-> possible_moves[i], mode |-> "hunt",
                     last_hit |-> cp.last_hit, direction |-> cp.direction,
                     hit_stack |-> cp.hit_stack,
                     probability_map |-> cp.probability_map] :
                    i \in DOMAIN possible_moves }
             ELSE { ResetAndProbability(cp, "exhausted") }
    ELSE LET pm == update_probability_map(cp.attack) IN
         { [cell |-> ArgMax(pm), mode |-> "probability", last_hit |-> cp.last_hit,
            direction |-> cp.direction, hit_stack |-> cp.hit_stack,
            probability_map |-> pm] }

\* take_turn, lines 172-217: the cell chosen and the hunt state left by the choice.
\* cp is the computer's state: attack, last_hit, hit_stack, direction, probability_map.
SelectTarget(cp) ==
    IF cp.hit_stack # << >>
    THEN { [cell |-> Head(cp.hit_stack), mode |-> "queue", last_hit |-> cp.last_hit,
            direction |-> cp.direction, hit_stack |-> Tail(cp.hit_stack),
            probability_map |-> cp.probability_map] }
    ELSE IF cp.last_hit # None
    THEN LET possible_moves ==
                 FilterMoves(cp.attack, AdjacentMoves(cp.last_hit, cp.direction))
         IN  IF possible_moves # << >>
             THEN { [cell |-> possible_moves[i], mode |-> "hunt",
                     last_hit |-> cp.last_hit, direction |-> cp.direction,
                     hit_stack |-> cp.hit_stack,
                     probability_map |-> cp.probability_map] :
                    i \in DOMAIN possible_moves }
             ELSE { ResetAndProbability(cp, "exhausted") }
    ELSE LET pm == update_probability_map(cp.attack) IN
         { [cell |-> ArgMax(pm), mode |-> "probability", last_hit |-> cp.last_hit,
            direction |-> cp.direction, hit_stack |-> cp.hit_stack,
            probability_map |-> pm] }

\* Lines 227-230: the direction after a follow-up hit.
InferDirection(last, row, column, dir) ==
    IF row = last[1] THEN "H"
    ELSE IF column = last[2] THEN "V"
    ELSE dir

\* Next moves taken on both sides of the new hit instead of beyond the two ends.
NextMoves_around(last, row, column, dir) ==
    IF dir = "H"
    THEN << <<row, column - 1>>, <<row, column + 1>> >>
    ELSE << <<row - 1, column>>, <<row + 1, column>> >>

\* Lines 233-238: the two cells beyond the ends of the line.
NextMoves(last, row, column, dir) ==
    IF dir = "H"
    THEN << <<row, Min(column, last[2]) - 1>>, <<row, Max(column, last[2]) + 1>> >>
    ELSE << <<Min(row, last[1]) - 1, column>>, <<Max(row, last[1]) + 1, column>> >>

\* A take_turn whose miss abandons the hunt: last_hit, direction and hit_stack are
\* cleared when the attacked cell holds no ship.
ProcessAttack_abandon(cp, sel, oppGrid, oppLocs) ==
    LET row == sel.cell[1]
        column == sel.cell[2]
        fresh == ~Attacked(cp.attack, row, column)
    IN  IF oppGrid[row][column] = "X"
        THEN LET attack == SetCell(cp.attack, row, column, "X")
                 dir == IF sel.last_hit # None
                        THEN InferDirection(sel.last_hit, row, column, sel.direction)
                        ELSE sel.direction
                 stack == IF sel.last_hit # None
                          THEN sel.hit_stack \o
                               FilterMoves(attack, NextMoves(sel.last_hit, row, column, dir))
                          ELSE sel.hit_stack
                 locs == check_sunk_ship(oppLocs, row, column)
                 sunk == Len(locs) < Len(oppLocs)
             IN  [cp |-> [attack |-> attack, last_hit |-> <<row, column>>,
                          hit_stack |-> stack, direction |-> dir,
                          probability_map |-> sel.probability_map],
                  locs |-> locs,
                  rec |-> [op |-> "attack", by |-> COMPUTER, cell |-> sel.cell, mode |-> sel.mode,
                           fresh |-> fresh, result |-> "hit", sunk |-> sunk,
                           queued |-> Len(cp.hit_stack)]]
        ELSE [cp |-> [attack |-> SetCell(cp.attack, row, column, "-"),
                      last_hit |-> None, hit_stack |-> << >>,
                      direction |-> NoDirection,
                      probability_map |-> sel.probability_map],
              locs |-> oppLocs,
              rec |-> [op |-> "attack", by |-> COMPUTER, cell |-> sel.cell, mode |-> sel.mode,
                       fresh |-> fresh, result |-> "miss", sunk |-> FALSE,
                       queued |-> Len(cp.hit_stack)]]

\* take_turn, lines 219-255: the attack on sel.cell against the opponent's ship
\* board and fleet. The result holds the computer's new state, the opponent's new
\* ship_locations and a record of the attack; queued is the length of hit_stack
\* when the turn began.
ProcessAttack(cp, sel, oppGrid, oppLocs) ==
    LET row == sel.cell[1]
        column == sel.cell[2]
        fresh == ~Attacked(cp.attack, row, column)
    IN  IF oppGrid[row][column] = "X"
        THEN LET attack == SetCell(cp.attack, row, column, "X")
                 dir == IF sel.last_hit # None
                        THEN InferDirection(sel.last_hit, row, column, sel.direction)
                        ELSE sel.direction
                 stack == IF sel.last_hit # None
                          THEN sel.hit_stack \o
                               FilterMoves(attack, NextMoves(sel.last_hit, row, column, dir))
                          ELSE sel.hit_stack
                 locs == check_sunk_ship(oppLocs, row, column)
                 sunk == Len(locs) < Len(oppLocs)
             IN  [cp |-> [attack |-> attack, last_hit |-> <<row, column>>,
                          hit_stack |-> stack, direction |-> dir,
                          probability_map |-> sel.probability_map],
                  locs |-> locs,
                  rec |-> [op |-> "attack", by |-> COMPUTER, cell |-> sel.cell, mode |-> sel.mode,
                           fresh |-> fresh, result |-> "hit", sunk |-> sunk,
                           queued |-> Len(cp.hit_stack)]]
        ELSE [cp |-> [attack |-> SetCell(cp.attack, row, column, "-"),
                      last_hit |-> sel.last_hit, hit_stack |-> sel.hit_stack,
                      direction |-> sel.direction,
                      probability_map |-> sel.probability_map],
              locs |-> oppLocs,
              rec |-> [op |-> "attack", by |-> COMPUTER, cell |-> sel.cell, mode |-> sel.mode,
                       fresh |-> fresh, result |-> "miss", sunk |-> FALSE,
                       queued |-> Len(cp.hit_stack)]]

\* ComputerPlayer.take_turn: every outcome the random choices allow.
ComputerTakeTurn(cp, oppGrid, oppLocs) ==
    { ProcessAttack(cp, sel, oppGrid, oppLocs) : sel \in SelectTarget(cp) }

\* A human attack without the test for a cell already attacked.
HumanAttack_unchecked(attack, oppGrid, oppLocs, row, column) ==
    IF oppGrid[row][column] = "X"
    THEN LET locs == check_sunk_ship(oppLocs, row, column) IN
         [attack |-> SetCell(attack, row, column, "X"), locs |-> locs,
          rec |-> [op |-> "attack", by |-> HUMAN, cell |-> <<row, column>>,
                   mode |-> "input", fresh |-> ~Attacked(attack, row, column),
                   result |-> "hit", sunk |-> Len(locs) < Len(oppLocs)]]
    ELSE [attack |-> SetCell(attack, row, column, "-"), locs |-> oppLocs,
          rec |-> [op |-> "attack", by |-> HUMAN, cell |-> <<row, column>>,
                   mode |-> "input", fresh |-> ~Attacked(attack, row, column),
                   result |-> "miss", sunk |-> FALSE]]

\* A human attack that marks Hit whatever the opponent's ship grid holds.
HumanAttack_allhit(attack, oppGrid, oppLocs, row, column) ==
    IF Attacked(attack, row, column)
    THEN [attack |-> attack, locs |-> oppLocs,
          rec |-> [op |-> "attack", by |-> HUMAN, cell |-> <<row, column>>, mode |-> "input",
                   fresh |-> FALSE, result |-> "rejected", sunk |-> FALSE]]
    ELSE LET locs == check_sunk_ship(oppLocs, row, column) IN
         [attack |-> SetCell(attack, row, column, "X"), locs |-> locs,
          rec |-> [op |-> "attack", by |-> HUMAN, cell |-> <<row, column>>, mode |-> "input",
                   fresh |-> TRUE,
                   result |-> IF oppGrid[row][column] = "X" THEN "hit" ELSE "miss",
                   sunk |-> Len(locs) < Len(oppLocs)]]

\* A human attack that turns away a cell marked Hit and takes a cell marked Miss
\* as a fresh one.
HumanAttack_hit_only(attack, oppGrid, oppLocs, row, column) ==
    IF attack[row][column] = "X"
    THEN [attack |-> attack, locs |-> oppLocs,
          rec |-> [op |-> "attack", by |-> HUMAN, cell |-> <<row, column>>, mode |-> "input",
                   fresh |-> FALSE, result |-> "rejected", sunk |-> FALSE]]
    ELSE HumanAttack_unchecked(attack, oppGrid, oppLocs, row, column)

\* HumanPlayer.take_turn lines 139-152 and make_move lines 175-185 on the cell the
\* human chose: rejected when already attacked, else marked and registered.
HumanAttack(attack, oppGrid, oppLocs, row, column) ==
    IF Attacked(attack, row, column)
    THEN [attack |-> attack, locs |-> oppLocs,
          rec |-> [op |-> "attack", by |-> HUMAN, cell |-> <<row, column>>, mode |-> "input",
                   fresh |-> FALSE, result |-> "rejected", sunk |-> FALSE]]
    ELSE IF oppGrid[row][column] = "X"
    THEN LET locs == check_sunk_ship(oppLocs, row, column) IN
         [attack |-> SetCell(attack, row, column, "X"), locs |-> locs,
          rec |-> [op |-> "attack", by |-> HUMAN, cell |-> <<row, column>>, mode |-> "input",
                   fresh |-> TRUE, result |-> "hit", sunk |-> Len(locs) < Len(oppLocs)]]
    ELSE [attack |-> SetCell(attack, row, column, "-"), locs |-> oppLocs,
          rec |-> [op |-> "attack", by |-> HUMAN, cell |-> <<row, column>>, mode |-> "input",
                   fresh |-> TRUE, result |-> "miss", sunk |-> FALSE]]

\* get_move (lines 289-312), a method nothing in the program calls. With last_hit
\* set it returns the first neighbour of last_hit, in the shuffled order of
\* hit_directions, that is on the board and whose cell of the opponent's ship
\* grid is neither "-" nor "H", and changes nothing; when no neighbour passes it
\* clears last_hit. Otherwise it draws cells until one passes the same test and
\* records it as last_hit when it holds a ship. hit_directions is shuffled before
\* it is read, so its order carries nothing from one call to the next. The
\* result is the set of outcomes [move, last_hit] that the shuffle and the cells
\* draws of random.randint can produce.
get_move(lh, oppGrid, draws) ==
    LET Open(cell) == oppGrid[cell[1]][cell[2]] \notin {"-", "H"}
        around == IF lh = None THEN {}
                  ELSE { cell \in { <<lh[1] + d[1], lh[2] + d[2]>> :
                                      d \in { <<0, 1>>, <<0, -1>>, <<1, 0>>, <<-1, 0>> } } :
                            InBoard(cell[1], cell[2]) /\ Open(cell) }
    IN  IF around # {}
        THEN { [move |-> cell, last_hit |-> lh] : cell \in around }
        ELSE { [move |-> cell,
                last_hit |-> IF oppGrid[cell[1]][cell[2]] = "X" THEN cell ELSE None] :
                  cell \in { c \in draws : Open(c) } }

(***************************************************************************)
(* The program's state                                                     *)
(***************************************************************************)

VARIABLES
    ui,                 \* "console" (Battleship_Game.py), "gui" (Battleship_Game_GUI.py)
                        \* or "unit" (a ShipManager and a BoardValidator on their own)
    phase,              \* "place", "play", "over" (the game-over popup is up) or
                        \* "dismissed" (GUI: the popup was closed, the boards are live)
    current_ship_index, \* the ship of SHIP_TYPES the human places next, from 0
    grid,               \* grid[p]: player p's ship_manager.grid
    ship_locations,     \* ship_locations[p]: player p's ship_manager.ship_locations
    attack,             \* attack[p]: player p's attack_board.grid
    last_hit,           \* the computer's last_hit
    hit_stack,          \* the computer's hit_stack
    direction,          \* the computer's direction
    probability_map,    \* the computer's probability_map
    current_player,     \* GameLoop.current_player
    winner,             \* the player announced as the winner, or -1
    deployed,           \* history: deployed[p] is what deploy_ship recorded for p
    last_attacker,      \* history: the player who made the latest attack, or -1
    last                \* history: the calls of the latest step, in order

vars == <<ui, phase, current_ship_index, grid, ship_locations, attack, last_hit,
          hit_stack, direction, probability_map, current_player, winner, deployed,
          last_attacker, last>>

hunt == <<last_hit, hit_stack, direction, probability_map>>

\* The computer's state as take_turn reads it.
Computer ==
    [attack |-> attack[COMPUTER], last_hit |-> last_hit, hit_stack |-> hit_stack,
     direction |-> direction, probability_map |-> probability_map]

\* GameSetup.__init__ / setup_new_game: two fresh players.
NewGame(u) ==
    /\ ui = u
    /\ phase = "place"
    /\ current_ship_index = 0
    /\ grid = [p \in Players |-> EmptyGrid]
    /\ ship_locations = [p \in Players |-> << >>]
    /\ attack = [p \in Players |-> EmptyGrid]
    /\ last_hit = None
    /\ hit_stack = << >>
    /\ direction = NoDirection
    /\ probability_map = ZeroMap
    /\ current_player = HUMAN
    /\ winner = -1
    /\ deployed = [p \in Players |-> << >>]
    /\ last_attacker = -1
    /\ last = << >>

Init == \E u \in {"console", "gui"} : NewGame(u)

\* The origins of the placements the human enters in a game: get_user_input
\* returns any cell of the board; the model's human enters the first
\* HumanOriginCount cells, counted down the columns.
HumanOrigins ==
    { <<k % BOARD_SIZE, k \div BOARD_SIZE>> : k \in 0 .. (HumanOriginCount - 1) } \cap Cells

\* The origins the computer's random placement draws in a game: randint draws any
\* row and column; the model draws the first ComputerOriginCount cells, counted
\* along the rows.
ComputerOrigins ==
    { <<k \div BOARD_SIZE, k % BOARD_SIZE>> : k \in 0 .. (ComputerOriginCount - 1) } \cap Cells

\* The order in which the harnesses take up origins: a corner, an inner cell, a
\* cell of the last row, then the remaining cells along the rows.
UnitOriginOrder ==
    << <<0, 0>>, <<1, 1>>, <<BOARD_SIZE - 1, 0>> >> \o
    SelectSeq([k \in 1 .. BOARD_SIZE * BOARD_SIZE |->
                  <<(k - 1) \div BOARD_SIZE, (k - 1) % BOARD_SIZE>>],
              LAMBDA cell : cell \notin { <<0, 0>>, <<1, 1>>, <<BOARD_SIZE - 1, 0>> })

\* The origins of the placements made in the harnesses.
UnitOrigins ==
    { UnitOriginOrder[i] : i \in 1 .. UnitOriginCount } \cap Cells

\* The first n cells from flat index k on, in row-major order, whose attacked
\* status on the board a is `attacked`.
RECURSIVE FirstCells(_, _, _, _)
FirstCells(a, attacked, k, n) ==
    IF n = 0 \/ k >= BOARD_SIZE * BOARD_SIZE THEN {}
    ELSE LET cell == <<k \div BOARD_SIZE, k % BOARD_SIZE>> IN
         IF Attacked(a, cell[1], cell[2]) = attacked
         THEN {cell} \cup FirstCells(a, attacked, k + 1, n - 1)
         ELSE FirstCells(a, attacked, k + 1, n)

\* The cells the human enters when the attack board is a.
HumanTargets(a) ==
    FirstCells(a, FALSE, 0, HumanLookahead) \cup FirstCells(a, TRUE, 0, HumanRepeats)

\* The player of the last attack made (not rejected) among the records recs of a
\* step, or prev when the step made none.
LatestAttacker(prev, recs) ==
    LET made == { i \in DOMAIN recs : recs[i].op = "attack" /\ recs[i].result # "rejected" }
    IN  IF made = {} THEN prev
        ELSE recs[CHOOSE i \in made : \A j \in made : j <= i].by

\* A placement test that forgets check_overlap.
Legal_no_overlap(g, length, row, column, orientation) ==
    validate_placement(length, row, column, orientation)

\* The test of deploy_all_ships lines 337-338 and try_place_ship lines 149-150.
Legal(g, length, row, column, orientation) ==
    /\ validate_placement(length, row, column, orientation)
    /\ ~check_overlap(g, row, column, orientation, length)

\* The history record of a placement attempt on the grid g.
PlaceRecord(p, g, k, orientation, row, column) ==
    [op |-> "place", by |-> p, ship |-> SHIP_TYPES[k].ship,
     length |-> SHIP_TYPES[k].length, orientation |-> orientation,
     row |-> row, column |-> column,
     valid |-> validate_placement(SHIP_TYPES[k].length, row, column, orientation),
     overlap |-> check_overlap(g, row, column, orientation, SHIP_TYPES[k].length),
     deployed |-> Legal(g, SHIP_TYPES[k].length, row, column, orientation)]

\* One placement attempt of the human: get_user_input and deploy_all_ships's loop
\* body on the console, try_place_ship in the GUI. An attempt that fails the test
\* changes nothing; in the GUI a click after the last ship returns at once.
PlaceShip(orientation, row, column) ==
    /\ phase = "place"
    /\ IF current_ship_index >= Len(SHIP_TYPES)
       THEN /\ ui = "gui"
            /\ last' = << >>
            /\ UNCHANGED <<last_attacker, ui, phase, current_ship_index, grid,
                           ship_locations, attack, hunt, current_player, winner,
                           deployed>>
       ELSE LET ship == SHIP_TYPES[current_ship_index + 1].ship
                length == SHIP_TYPES[current_ship_index + 1].length
            IN  /\ last' = << PlaceRecord(HUMAN, grid[HUMAN], current_ship_index + 1,
                                          orientation, row, column) >>
                /\ IF Legal(grid[HUMAN], length, row, column, orientation)
                   THEN /\ grid' = [grid EXCEPT ![HUMAN] =
                                       DeployGrid(@, length, row, column, orientation)]
                        /\ ship_locations' = [ship_locations EXCEPT ![HUMAN] =
                                       DeployLocs(@, ship, length, row, column, orientation)]
                        /\ deployed' = [deployed EXCEPT ![HUMAN] =
                                       DeployLocs(@, ship, length, row, column, orientation)]
                        /\ current_ship_index' = current_ship_index + 1
                        /\ UNCHANGED <<last_attacker, ui, phase, attack, hunt, current_player, winner>>
                   ELSE UNCHANGED <<last_attacker, ui, phase, current_ship_index, grid, ship_locations,
                                    attack, hunt, current_player, winner, deployed>>

\* deploy_all_ships for the computer: for each ship in turn, draws are repeated
\* until one passes the test; a draw that fails it changes nothing. The set of
\* [grid, locs, recs] the loop can end with, from ship k on; recs holds, for each
\* ship, the record of the draw that passed, preceded by the record of the draw
\* refused just before it when the loop went round more than once.
RECURSIVE RandomFleets(_, _, _, _)
RandomFleets(g, locs, recs, k) ==
    IF k > Len(SHIP_TYPES) THEN { [grid |-> g, locs |-> locs, recs |-> recs] }
    ELSE LET ship == SHIP_TYPES[k].ship
             length == SHIP_TYPES[k].length
             draws == {"H", "V"} \X ComputerOrigins
             passed == { e \in draws : Legal(g, length, e[2][1], e[2][2], e[1]) }
             Rec(e) == PlaceRecord(COMPUTER, g, k, e[1], e[2][1], e[2][2])
             before == { << >> } \cup { << Rec(e) >> : e \in draws \ passed }
         IN  UNION { RandomFleets(DeployGrid(g, length, d[2][1], d[2][2], d[1]),
                                  DeployLocs(locs, ship, length, d[2][1], d[2][2], d[1]),
                                  recs \o b \o << Rec(d) >>,
                                  k + 1) :
                     d \in passed, b \in before }

\* The computer's deployment: run_game's second deploy_all_ships on the console,
\* start_game (enabled once every ship is placed) in the GUI.
DeployComputer ==
    /\ ui \in {"console", "gui"}
    /\ phase = "place"
    /\ current_ship_index >= Len(SHIP_TYPES)
    /\ \E f \in RandomFleets(grid[COMPUTER], ship_locations[COMPUTER], << >>, 1) :
          /\ grid' = [grid EXCEPT ![COMPUTER] = f.grid]
          /\ ship_locations' = [ship_locations EXCEPT ![COMPUTER] = f.locs]
          /\ deployed' = [deployed EXCEPT ![COMPUTER] = f.locs]
          /\ last' = f.recs
    /\ phase' = "play"
    /\ UNCHANGED <<last_attacker, ui, current_ship_index, attack, hunt, current_player, winner>>

\* One iteration of GameLoop.run with the human to move, on the cell entered.
\* A cell already attacked is asked for again within the same turn.
HumanTurn(row, column) ==
    /\ ui = "console"
    /\ phase = "play"
    /\ current_player = HUMAN
    /\ LET res == HumanAttack(attack[HUMAN], grid[COMPUTER], ship_locations[COMPUTER],
                              row, column)
       IN  /\ attack' = [attack EXCEPT ![HUMAN] = res.attack]
           /\ ship_locations' = [ship_locations EXCEPT ![COMPUTER] = res.locs]
           /\ last' = <<res.rec>>
           /\ IF res.rec.result = "rejected"
              THEN UNCHANGED <<phase, winner, current_player>>
              ELSE IF all_ships_sunk(res.locs)
              THEN /\ phase' = "over"
                   /\ winner' = HUMAN
                   /\ UNCHANGED current_player
              ELSE /\ current_player' = 1 - current_player
                   /\ UNCHANGED <<phase, winner>>
    /\ UNCHANGED <<ui, current_ship_index, grid, hunt, deployed>>
    /\ last_attacker' = LatestAttacker(last_attacker, last')

\* One iteration of GameLoop.run with the computer to move.
ComputerTurn ==
    /\ ui = "console"
    /\ phase = "play"
    /\ current_player = COMPUTER
    /\ \E res \in ComputerTakeTurn(Computer, grid[HUMAN], ship_locations[HUMAN]) :
          /\ attack' = [attack EXCEPT ![COMPUTER] = res.cp.attack]
          /\ last_hit' = res.cp.last_hit
          /\ hit_stack' = res.cp.hit_stack
          /\ direction' = res.cp.direction
          /\ probability_map' = res.cp.probability_map
          /\ ship_locations' = [ship_locations EXCEPT ![HUMAN] = res.locs]
          /\ last' = <<res.rec>>
          /\ IF all_ships_sunk(res.locs)
             THEN /\ phase' = "over"
                  /\ winner' = COMPUTER
                  /\ UNCHANGED current_player
             ELSE /\ current_player' = 1 - current_player
                  /\ UNCHANGED <<phase, winner>>
    /\ UNCHANGED <<ui, current_ship_index, grid, deployed>>
    /\ last_attacker' = LatestAttacker(last_attacker, last')

\* BattleshipGUI.make_move: the human's attack and, unless it was rejected or won
\* the game, the computer's answer. The handler looks at no game-over flag: it
\* runs whenever a button of the board can be clicked.
MakeMove(row, column) ==
    /\ ui = "gui"
    /\ phase \in {"play", "dismissed"}
    /\ LET res == HumanAttack(attack[HUMAN], grid[COMPUTER], ship_locations[COMPUTER],
                              row, column)
       IN  IF res.rec.result = "rejected"
           THEN /\ last' = <<res.rec>>
                /\ UNCHANGED <<phase, winner, attack, ship_locations, hunt>>
           ELSE IF res.rec.result = "hit" /\ all_ships_sunk(res.locs)
           THEN /\ attack' = [attack EXCEPT ![HUMAN] = res.attack]
                /\ ship_locations' = [ship_locations EXCEPT ![COMPUTER] = res.locs]
                /\ last' = <<res.rec>>
                /\ phase' = "over"
                /\ winner' = HUMAN
                /\ UNCHANGED hunt
           ELSE \E ans \in ComputerTakeTurn(Computer, grid[HUMAN], ship_locations[HUMAN]) :
                /\ attack' = [attack EXCEPT ![HUMAN] = res.attack,
                                            ![COMPUTER] = ans.cp.attack]
                /\ ship_locations' = [ship_locations EXCEPT ![COMPUTER] = res.locs,
                                                            ![HUMAN] = ans.locs]
                /\ last_hit' = ans.cp.last_hit
                /\ hit_stack' = ans.cp.hit_stack
                /\ direction' = ans.cp.direction
                /\ probability_map' = ans.cp.probability_map
                /\ last' = <<res.rec, ans.rec>>
                /\ IF all_ships_sunk(ans.locs)
                   THEN phase' = "over" /\ winner' = COMPUTER
                   ELSE UNCHANGED <<phase, winner>>
    /\ UNCHANGED <<ui, current_ship_index, grid, current_player, deployed>>
    /\ last_attacker' = LatestAttacker(last_attacker, last')

\* show_game_over opens a Toplevel that grabs the input and holds one button,
\* "Play Again". Closing that window by its title bar destroys it and releases
\* the grab, and the boards of the finished game take clicks again.
ClosePopup ==
    /\ ui = "gui"
    /\ phase = "over"
    /\ phase' = "dismissed"
    /\ last' = << >>
    /\ UNCHANGED <<last_attacker, ui, current_ship_index, grid, ship_locations, attack, hunt,
                   current_player, winner, deployed>>

\* restart_game ("Play Again" in the game-over popup): setup_new_game.
RestartGame ==
    /\ ui = "gui"
    /\ phase = "over"
    /\ phase' = "place"
    /\ current_ship_index' = 0
    /\ grid' = [p \in Players |-> EmptyGrid]
    /\ ship_locations' = [p \in Players |-> << >>]
    /\ attack' = [p \in Players |-> EmptyGrid]
    /\ last_hit' = None
    /\ hit_stack' = << >>
    /\ direction' = NoDirection
    /\ probability_map' = ZeroMap
    /\ current_player' = HUMAN
    /\ winner' = -1
    /\ deployed' = [p \in Players |-> << >>]
    /\ last_attacker' = -1
    /\ last' = << >>
    /\ UNCHANGED ui

Next ==
    \/ \E o \in {"H", "V"}, origin \in HumanOrigins : PlaceShip(o, origin[1], origin[2])
    \/ DeployComputer
    \/ \E t \in HumanTargets(attack[HUMAN]) : HumanTurn(t[1], t[2])
    \/ ComputerTurn
    \/ \E t \in HumanTargets(attack[HUMAN]) : MakeMove(t[1], t[2])
    \/ ClosePopup
    \/ RestartGame

\* A game on the console or in the GUI, from the first placement to the end.
Spec == Init /\ [][Next]_vars

(***************************************************************************)
(* Harnesses: a ShipManager and a BoardValidator driven call by call, as   *)
(* the unit tests drive them. The HUMAN slot holds the objects under test. *)
(***************************************************************************)

UnitInit == NewGame("unit")

\* ship_manager.check_sunk_ship(row, column) on any cell of the board.
CallCheckSunk(row, column) ==
    /\ ui = "unit"
    /\ ship_locations' = [ship_locations EXCEPT ![HUMAN] = check_sunk_ship(@, row, column)]
    /\ last' = << [op |-> "check_sunk_ship", row |-> row, column |-> column] >>
    /\ UNCHANGED <<last_attacker, ui, phase, current_ship_index, grid, attack, hunt, current_player,
                   winner, deployed>>

\* validator.validate_placement(length, row, column, orientation)
CallValidate(length, row, column, orientation) ==
    /\ ui = "unit"
    /\ last' = << [op |-> "validate_placement", length |-> length, row |-> row,
                   column |-> column, orientation |-> orientation,
                   result |-> validate_placement(length, row, column, orientation)] >>
    /\ UNCHANGED <<last_attacker, ui, phase, current_ship_index, grid, ship_locations, attack, hunt,
                   current_player, winner, deployed>>

\* validator.check_overlap(grid, row, column, orientation, length)
CallOverlap(length, row, column, orientation) ==
    /\ ui = "unit"
    /\ last' = << [op |-> "check_overlap", length |-> length, row |-> row,
                   column |-> column, orientation |-> orientation,
                   result |-> check_overlap(grid[HUMAN], row, column, orientation,
                                            length)] >>
    /\ UNCHANGED <<last_attacker, ui, phase, current_ship_index, grid, ship_locations, attack, hunt,
                   current_player, winner, deployed>>

\* The number of coordinates recorded in a fleet.
RECURSIVE Recorded(_, _)
Recorded(locs, k) ==
    IF k > Len(locs) THEN 0 ELSE Len(locs[k].positions) + Recorded(locs, k + 1)

\* ship_manager.deploy_ship(ship, length, row, column, orientation) called on
\* its own, as TestShipManager calls it (lines 33, 42, 56): nothing is
\* validated, a ship name can come twice, a run can cross another ship or
\* leave the board.
CallDeployShip(ship, length, row, column, orientation) ==
    /\ ui = "unit"
    /\ Recorded(deployed[HUMAN], 1) + Reach(length, row, column, orientation) <= MaxRecorded
    /\ LET res == deploy_ship(grid[HUMAN], ship_locations[HUMAN], ship, length, row,
                              column, orientation)
       IN  /\ grid' = [grid EXCEPT ![HUMAN] = res.grid]
           /\ ship_locations' = [ship_locations EXCEPT ![HUMAN] = res.locs]
           /\ deployed' = [deployed EXCEPT ![HUMAN] =
                  DeployLocs(@, ship, Reach(length, row, column, orientation), row,
                             column, orientation)]
           /\ last' = << [op |-> "deploy_ship", ship |-> ship, length |-> length,
                          row |-> row, column |-> column, orientation |-> orientation,
                          raised |-> res.raised] >>
    /\ UNCHANGED <<last_attacker, ui, phase, current_ship_index, attack, hunt,
                   current_player, winner>>

\* The order in which the caller takes up cells to mark: the two cells the test
\* marks, an inner cell, a corner, then the remaining cells along the rows.
MarkOrder ==
    << <<0, 0>>, <<0, 1>>, <<2, 1>>, <<BOARD_SIZE - 1, BOARD_SIZE - 1>> >> \o
    SelectSeq([k \in 1 .. BOARD_SIZE * BOARD_SIZE |->
                  <<(k - 1) \div BOARD_SIZE, (k - 1) % BOARD_SIZE>>],
              LAMBDA cell : cell \notin { <<0, 0>>, <<0, 1>>, <<2, 1>>,
                                          <<BOARD_SIZE - 1, BOARD_SIZE - 1>> })

MarkCells == { MarkOrder[i] : i \in 1 .. MarkCount } \cap Cells

\* The rows and columns the validator is asked about.
AskedIndex == Idx \cup {OffBoardIndex}

\* test_grid[row][column] = "X" (TestBoardValidator, lines 78-79): the caller
\* marks a cell of the grid it hands to check_overlap.
MarkCell(row, column) ==
    /\ ui = "unit"
    /\ grid' = [grid EXCEPT ![HUMAN] = SetCell(@, row, column, "X")]
    /\ last' = << [op |-> "mark", row |-> row, column |-> column] >>
    /\ UNCHANGED <<last_attacker, ui, phase, current_ship_index, ship_locations, attack,
                   hunt, current_player, winner, deployed>>

ShipManagerNext ==
    \/ \E k \in DOMAIN SHIP_TYPES, length \in 1 .. MaxLength, o \in {"H", "V"},
          origin \in UnitOrigins :
          CallDeployShip(SHIP_TYPES[k].ship, length, origin[1], origin[2], o)
    \/ \E cell \in Cells : CallCheckSunk(cell[1], cell[2])

\* A ShipManager driven call by call: ships deployed by direct calls of
\* deploy_ship, cells registered as hit.
SpecShipManager == UnitInit /\ [][ShipManagerNext]_vars

ValidatorNext ==
    \/ \E cell \in MarkCells : MarkCell(cell[1], cell[2])
    \/ \E length \in 1 .. MaxLength, row \in AskedIndex, column \in AskedIndex,
          o \in {"H", "V"} :
          CallValidate(length, row, column, o)
    \/ \E length \in 1 .. MaxLength, row \in AskedIndex, column \in AskedIndex,
          o \in {"H", "V"} :
          CallOverlap(length, row, column, o)

\* A BoardValidator asked about every run, from origins on the board and past
\* its edge, on grids the caller marks by hand.
SpecValidator == UnitInit /\ [][ValidatorNext]_vars

\* computer.take_turn(opponent) called on its own, against the fleet placed in
\* the HUMAN slot, while that fleet has a ship left.
CallTakeTurn ==
    /\ ui = "unit"
    /\ current_ship_index >= Len(SHIP_TYPES)
    /\ ~all_ships_sunk(ship_locations[HUMAN])
    /\ \E res \in ComputerTakeTurn(Computer, grid[HUMAN], ship_locations[HUMAN]) :
          /\ attack' = [attack EXCEPT ![COMPUTER] = res.cp.attack]
          /\ last_hit' = res.cp.last_hit
          /\ hit_stack' = res.cp.hit_stack
          /\ direction' = res.cp.direction
          /\ probability_map' = res.cp.probability_map
          /\ ship_locations' = [ship_locations EXCEPT ![HUMAN] = res.locs]
          /\ last' = <<res.rec>>
    /\ last_attacker' = LatestAttacker(last_attacker, last')
    /\ UNCHANGED <<ui, phase, current_ship_index, grid, current_player, winner,
                   deployed>>

\* The caller assigns computer.direction (a public attribute, line 161) after a
\* first hit, before the next take_turn.
SetDirection(d) ==
    /\ ui = "unit"
    /\ last_hit # None
    /\ hit_stack = << >>
    /\ direction = NoDirection
    /\ direction' = d
    /\ last' = << [op |-> "set_direction", direction |-> d] >>
    /\ UNCHANGED <<ui, phase, current_ship_index, grid, ship_locations, attack,
                   last_hit, hit_stack, probability_map, current_player, winner,
                   deployed, last_attacker>>

\* The cells get_move's random.randint draws (lines 306-307) in the harness:
\* the first GetMoveDrawCount cells, counted along the rows.
GetMoveDraws ==
    { <<k \div BOARD_SIZE, k % BOARD_SIZE>> : k \in 0 .. (GetMoveDrawCount - 1) } \cap Cells

\* computer.get_move(opponent) called on its own against the HUMAN slot: the
\* move is returned to the caller, and only last_hit can change.
CallGetMove ==
    /\ ui = "unit"
    /\ \E res \in get_move(last_hit, grid[HUMAN], GetMoveDraws) :
          /\ last_hit' = res.last_hit
          /\ last' = << [op |-> "get_move", cell |-> res.move] >>
    /\ UNCHANGED <<ui, phase, current_ship_index, grid, ship_locations, attack,
                   hit_stack, direction, probability_map, current_player, winner,
                   deployed, last_attacker>>

\* computer.update_probability_map(opponent) called on its own, as
\* test_probability_map_initialization calls it: the map is rebuilt from the
\* computer's attack board, whatever the opponent.
CallUpdateProbabilityMap ==
    /\ ui = "unit"
    /\ probability_map' = update_probability_map(attack[COMPUTER])
    /\ last' = << [op |-> "update_probability_map"] >>
    /\ UNCHANGED <<ui, phase, current_ship_index, grid, ship_locations, attack,
                   last_hit, hit_stack, direction, current_player, winner,
                   deployed, last_attacker>>

TakeTurnNext ==
    \/ \E o \in {"H", "V"}, origin \in UnitOrigins : PlaceShip(o, origin[1], origin[2])
    \/ CallTakeTurn
    \/ \E d \in {"H", "V"} : SetDirection(d)
    \/ CallGetMove
    \/ CallUpdateProbabilityMap

\* A ComputerPlayer driven call by call against a fleet placed in the HUMAN
\* slot: take_turn, get_move and update_probability_map in any order, any
\* number of times, with the direction of the hunt set by the caller at will.
\* The caller may stop calling at any point, as GameLoop.run does when the
\* human wins (lines 410-412).
SpecTakeTurn == UnitInit /\ [][TakeTurnNext]_vars

(***************************************************************************)
(* Claims                                                                  *)
(***************************************************************************)

\* The records of the computer's attacks in the latest step.
ComputerAttacks ==
    { i \in DOMAIN last : last[i].op = "attack" /\ last[i].by = COMPUTER }

\* C1: the cell ComputerPlayer.take_turn attacks, whichever mode chose it, is
\* not yet marked Hit or Miss on the computer's attack board when it is attacked.
C1_ComputerAttacksFreshCell == \A i \in ComputerAttacks : last[i].fresh

\* C2: when a computer attack sinks a ship, take_turn ends with last_hit none,
\* direction none and hit_stack empty.
C2_SinkResetsHunt ==
    \A i \in ComputerAttacks :
        last[i].sunk =>
            last_hit = None /\ direction = NoDirection /\ hit_stack = << >>

\* The cells of a run of length cells from (row, column): along the row when
\* Horizontal, down the column when Vertical.
RunCells(length, row, column, orientation) ==
    IF orientation = "H"
    THEN { <<row, column + i>> : i \in 0 .. (length - 1) }
    ELSE { <<row + i, column>> : i \in 0 .. (length - 1) }

Range(s) == { s[i] : i \in DOMAIN s }

ShipNames(locs) == { locs[k].ship : k \in DOMAIN locs }

PositionsOf(locs, ship) == locs[KeyIndex(locs, ship)].positions

ShipCells(g) == { cell \in Cells : g[cell[1]][cell[2]] = "X" }

LengthOf(ship) ==
    SHIP_TYPES[CHOOSE k \in DOMAIN SHIP_TYPES : SHIP_TYPES[k].ship = ship].length

RECURSIVE SumLengths(_, _)
SumLengths(locs, k) ==
    IF k > Len(locs) THEN 0 ELSE LengthOf(locs[k].ship) + SumLengths(locs, k + 1)

\* all_ships_sunk answers true exactly for a fleet with no ship left in it.
EmptyIffAllSunk ==
    \A p \in Players : all_ships_sunk(ship_locations[p]) <=> (ship_locations[p] = << >>)

\* An attack of this step hits the only coordinate left of the only ship left of
\* p's fleet.
HitsLastCoordinate(p) ==
    \E i \in DOMAIN last' :
        /\ last'[i].op = "attack"
        /\ last'[i].by = 1 - p
        /\ last'[i].result = "hit"
        /\ Len(ship_locations[p]) = 1
        /\ ship_locations[p][1].positions = << last'[i].cell >>

\* C3: all_ships_sunk is true exactly when the fleet holds no ship: true for a
\* fleet on which nothing was deployed, false right after a deployment, and in a
\* game it turns true exactly in the step whose hit removes the last coordinate
\* of the last ship.
C3_AllSunkIffFleetEmpty ==
    [][ /\ EmptyIffAllSunk
        /\ EmptyIffAllSunk'
        /\ \A p \in Players :
              /\ deployed[p] = << >> => all_ships_sunk(ship_locations[p])
              /\ (deployed'[p] # deployed[p] /\ deployed'[p] # << >>)
                    => ~all_ships_sunk(ship_locations'[p])
              /\ phase \in {"play", "dismissed"} =>
                    ((~all_ships_sunk(ship_locations[p])
                        /\ all_ships_sunk(ship_locations'[p]))
                     <=> HitsLastCoordinate(p)) ]_vars

\* C3 witness: a game is over with a deployed fleet emptied by the last hit.
C3_Witness ==
    /\ phase = "over"
    /\ \E p \in Players :
          /\ Len(deployed[p]) = Len(SHIP_TYPES)
          /\ ship_locations[p] = << >>
          /\ \E i \in DOMAIN last : last[i].op = "attack" /\ last[i].by = 1 - p
                                      /\ last[i].result = "hit" /\ last[i].sunk

\* No coordinate is recorded twice in the fleet, in one ship or in two: the
\* fleets that placements passing validate_placement and check_overlap build.
FleetWellFormed(locs) ==
    \A k, j \in DOMAIN locs :
        \A a \in DOMAIN locs[k].positions, b \in DOMAIN locs[j].positions :
            (k # j \/ a # b) => locs[k].positions[a] # locs[j].positions[b]

\* C4: on a fleet in which every coordinate belongs to one ship,
\* check_sunk_ship(row, column) removes the coordinate from the ship that
\* holds it, leaves the other ships and the grid alone, deletes a ship exactly
\* in the call that removes its last coordinate, and changes nothing when no
\* ship holds the coordinate.
C4_CheckSunkShipRemovesOneCoordinate ==
    [][ (/\ last' # << >>
         /\ last'[1].op = "check_sunk_ship"
         /\ FleetWellFormed(ship_locations[HUMAN])) =>
          LET cell == <<last'[1].row, last'[1].column>>
              old == ship_locations[HUMAN]
              new == ship_locations'[HUMAN]
          IN  /\ \A k \in DOMAIN old :
                    LET left == SelectSeq(old[k].positions, LAMBDA x : x # cell)
                    IN  IF left = << >>
                        THEN old[k].ship \notin ShipNames(new)
                        ELSE /\ old[k].ship \in ShipNames(new)
                             /\ PositionsOf(new, old[k].ship) = left
              /\ ShipNames(new) \subseteq ShipNames(old)
              /\ Len(new) = Cardinality(ShipNames(new))
              /\ (\A k \in DOMAIN old : cell \notin Range(old[k].positions))
                    => new = old
              /\ grid' = grid ]_vars

\* C4 witness: a call has just removed the last coordinate of one of two
\* deployed ships while the other still has coordinates.
C4_Witness ==
    /\ last # << >>
    /\ last[1].op = "check_sunk_ship"
    /\ FleetWellFormed(deployed[HUMAN])
    /\ Len(deployed[HUMAN]) = 2
    /\ Len(ship_locations[HUMAN]) = 1
    /\ \E k \in DOMAIN deployed[HUMAN] :
          /\ deployed[HUMAN][k].ship \notin ShipNames(ship_locations[HUMAN])
          /\ <<last[1].row, last[1].column>> \in Range(deployed[HUMAN][k].positions)

\* C5: a human attack on a cell already marked Hit or Miss on the human's attack
\* board is rejected: both attack boards, both grids, both fleets, the computer's
\* hunt state, the player to move and the outcome stay as they were, and the
\* computer does not answer.
C5_RepeatedAttackRejected ==
    [][ (/\ last' # << >>
         /\ last'[1].op = "attack"
         /\ last'[1].by = HUMAN
         /\ Attacked(attack[HUMAN], last'[1].cell[1], last'[1].cell[2]))
        => /\ UNCHANGED <<attack, grid, ship_locations, hunt, current_player, phase,
                          winner>>
           /\ Len(last') = 1 ]_vars

\* C5 witness: the human has just entered a cell marked Miss on the attack board,
\* water on the computer's grid, and the attempt was rejected.
C5_Witness ==
    /\ last # << >>
    /\ last[1].op = "attack"
    /\ last[1].by = HUMAN
    /\ last[1].result = "rejected"
    /\ attack[HUMAN][last[1].cell[1]][last[1].cell[2]] = "-"
    /\ grid[COMPUTER][last[1].cell[1]][last[1].cell[2]] = " "

\* The other case of C5, reached as well: the cell re-entered and rejected was
\* marked Hit.
C5_WitnessHit ==
    /\ last # << >>
    /\ last[1].op = "attack"
    /\ last[1].by = HUMAN
    /\ last[1].result = "rejected"
    /\ attack[HUMAN][last[1].cell[1]][last[1].cell[2]] = "X"

\* C6: check_overlap answers true exactly when some cell of the run holds a ship
\* or the run leaves the board; a run that leaves the board gives true, never an
\* error.
C6_OverlapOrOffBoard ==
    \A i \in DOMAIN last :
        last[i].op = "check_overlap" =>
            LET cells == RunCells(last[i].length, last[i].row, last[i].column,
                                  last[i].orientation)
            IN  /\ last[i].result \in BOOLEAN
                /\ last[i].result <=>
                      \/ ~(cells \subseteq Cells)
                      \/ \E cell \in cells \cap Cells :
                            grid[HUMAN][cell[1]][cell[2]] = "X"

\* C6 witness: check_overlap answered true for a run that leaves the board and
\* crosses no ship, on a grid that holds ships.
C6_Witness ==
    /\ last # << >>
    /\ last[1].op = "check_overlap"
    /\ InBoard(last[1].row, last[1].column)
    /\ last[1].result = TRUE
    /\ ShipCells(grid[HUMAN]) # {}
    /\ LET cells == RunCells(last[1].length, last[1].row, last[1].column,
                             last[1].orientation)
       IN  /\ ~(cells \subseteq Cells)
           /\ cells \cap ShipCells(grid[HUMAN]) = {}

\* C7: deploy_ship called with a run that validate_placement accepts and
\* check_overlap clears marks exactly the L cells of the run as Ship, leaves
\* every other cell as it was, raises nothing, and records exactly those L
\* coordinates under the ship's name (after the ones a ship of that name held
\* before, if any), leaving the other ships' lists alone.
C7_DeployMarksRun ==
    [][ (/\ last' # << >>
         /\ last'[1].op = "deploy_ship"
         /\ validate_placement(last'[1].length, last'[1].row, last'[1].column,
                               last'[1].orientation)
         /\ ~check_overlap(grid[HUMAN], last'[1].row, last'[1].column,
                           last'[1].orientation, last'[1].length)) =>
          LET rec == last'[1]
              cells == RunCells(rec.length, rec.row, rec.column, rec.orientation)
              old == ship_locations[HUMAN]
              new == ship_locations'[HUMAN]
              before == IF rec.ship \in ShipNames(old) THEN PositionsOf(old, rec.ship)
                        ELSE << >>
          IN  /\ ~rec.raised
              /\ Cardinality(cells) = rec.length
              /\ \A cell \in Cells :
                    grid'[HUMAN][cell[1]][cell[2]] =
                        IF cell \in cells THEN "X" ELSE grid[HUMAN][cell[1]][cell[2]]
              /\ rec.ship \in ShipNames(new)
              /\ Len(PositionsOf(new, rec.ship)) = Len(before) + rec.length
              /\ SubSeq(PositionsOf(new, rec.ship), 1, Len(before)) = before
              /\ Range(SubSeq(PositionsOf(new, rec.ship), Len(before) + 1,
                              Len(before) + rec.length)) = cells
              /\ Len(new) = Len(old) + (IF rec.ship \in ShipNames(old) THEN 0 ELSE 1)
              /\ \A k \in DOMAIN old : old[k].ship # rec.ship => new[k] = old[k] ]_vars

\* C7 witness: a Vertical ship of two cells or more has just been deployed, on
\* a validated placement, next to a ship deployed before it.
C7_Witness ==
    /\ last # << >>
    /\ last[1].op = "deploy_ship"
    /\ ~last[1].raised
    /\ last[1].orientation = "V"
    /\ last[1].length >= 2
    /\ Len(deployed[HUMAN]) = 2
    /\ Len(ship_locations[HUMAN]) = 2
    /\ FleetWellFormed(ship_locations[HUMAN])
    /\ Cardinality(ShipCells(grid[HUMAN])) = Recorded(ship_locations[HUMAN], 1)

\* The records of the placement attempts of player p in the step.
PlaceAttempts(recs, p) ==
    { i \in DOMAIN recs : recs[i].op = "place" /\ recs[i].by = p }

\* The grid g with a ship on every cell of the run.
WithRun(g, length, row, column, orientation) ==
    [r \in Idx |-> [c \in Idx |->
        IF <<r, c>> \in RunCells(length, row, column, orientation) THEN "X" ELSE g[r][c]]]

\* The grid of player p as attempt i of the step's records met it: g, the grid
\* the step began with, and on it the runs of p's attempts before i that were
\* deployed.
RECURSIVE GridAtAttempt(_, _, _, _)
GridAtAttempt(g, recs, p, i) ==
    IF i <= 1 THEN g
    ELSE LET prev == GridAtAttempt(g, recs, p, i - 1)
             rec == recs[i - 1]
         IN  IF (i - 1) \in PlaceAttempts(recs, p) /\ rec.deployed
             THEN WithRun(prev, rec.length, rec.row, rec.column, rec.orientation)
             ELSE prev

\* Every coordinate of every ship of p is on the board, every Ship cell of p's
\* grid belongs to exactly one deployed ship, and the Ship cells number the sum
\* of the lengths of the ships deployed.
DeployedFleetWellFormed(p) ==
    /\ \A k \in DOMAIN deployed[p] : Range(deployed[p][k].positions) \subseteq Cells
    /\ \A k \in DOMAIN ship_locations[p] :
          Range(ship_locations[p][k].positions) \subseteq Cells
    /\ \A cell \in ShipCells(grid[p]) :
          Cardinality({ k \in DOMAIN deployed[p] :
                          cell \in Range(deployed[p][k].positions) }) = 1
    /\ Cardinality(ShipCells(grid[p])) = SumLengths(deployed[p], 1)

\* C8: whatever placements are attempted (entered by the human on the console or
\* in the GUI, drawn by the computer), a ship is deployed only on an attempt for
\* which validate_placement is true and check_overlap is false on the grid as
\* the attempt met it, so that its run lies on the board and on no Ship cell;
\* a step changes a grid by the runs of its deployed attempts and by nothing
\* else (a refused attempt leaves it as it was; a restart empties it); hence in
\* every reachable state every coordinate of every ship is on the board, every
\* Ship cell belongs to exactly one deployed ship, and the Ship cells of a grid
\* number the sum of the lengths of the ships deployed on it.
C8_DeployedFleetWellFormed ==
    /\ [](\A p \in Players : DeployedFleetWellFormed(p))
    /\ [][ \A p \in Players :
             /\ \A i \in PlaceAttempts(last', p) :
                   LET rec == last'[i]
                       g == GridAtAttempt(grid[p], last', p, i)
                       run == RunCells(rec.length, rec.row, rec.column, rec.orientation)
                   IN  rec.deployed =>
                          /\ validate_placement(rec.length, rec.row, rec.column,
                                                rec.orientation)
                          /\ ~check_overlap(g, rec.row, rec.column, rec.orientation,
                                            rec.length)
                          /\ run \subseteq Cells
                          /\ run \cap ShipCells(g) = {}
             /\ grid'[p] \in { GridAtAttempt(grid[p], last', p, Len(last') + 1),
                                EmptyGrid }
             /\ Len(deployed'[p]) <= Len(deployed[p]) +
                    Cardinality({ i \in PlaceAttempts(last', p) : last'[i].deployed })
          ]_vars

\* C8 witness: the game is in play with both fleets deployed in full, and the
\* computer's deployment, the latest step, was refused a draw whose run leaves
\* the board and a draw whose run lies on the board across a ship.
C8_Witness ==
    /\ phase = "play"
    /\ \A p \in Players : Len(deployed[p]) = Len(SHIP_TYPES)
    /\ \A p \in Players : Cardinality(ShipCells(grid[p])) = SumLengths(deployed[p], 1)
    /\ Cardinality({ i \in PlaceAttempts(last, COMPUTER) : last[i].deployed })
          = Len(SHIP_TYPES)
    /\ \E i \in PlaceAttempts(last, COMPUTER) :
          /\ ~last[i].deployed
          /\ ~validate_placement(last[i].length, last[i].row, last[i].column,
                                 last[i].orientation)
    /\ \E i \in PlaceAttempts(last, COMPUTER) :
          /\ ~last[i].deployed
          /\ validate_placement(last[i].length, last[i].row, last[i].column,
                                last[i].orientation)
          /\ RunCells(last[i].length, last[i].row, last[i].column, last[i].orientation)
                \cap ShipCells(grid[COMPUTER]) # {}

\* The human's side of C8, reached as well: the attempt just entered was refused
\* because its run leaves the board, and the grid is as empty as before.
C8_WitnessHumanOffBoard ==
    /\ phase = "place"
    /\ grid[HUMAN] = EmptyGrid
    /\ \E i \in PlaceAttempts(last, HUMAN) :
          /\ ~last[i].deployed
          /\ ~validate_placement(last[i].length, last[i].row, last[i].column,
                                 last[i].orientation)

\* The human's side of C8, reached as well: the attempt just entered was refused
\* because its run, on the board, crosses the ship placed before.
C8_WitnessHumanOverlap ==
    /\ phase = "place"
    /\ \E i \in PlaceAttempts(last, HUMAN) :
          /\ ~last[i].deployed
          /\ validate_placement(last[i].length, last[i].row, last[i].column,
                                last[i].orientation)
          /\ RunCells(last[i].length, last[i].row, last[i].column, last[i].orientation)
                \cap ShipCells(grid[HUMAN]) # {}

\* C9: for an origin on the board, validate_placement is true exactly when
\* every cell of the run lies on the board.
C9_ValidateIffRunOnBoard ==
    \A i \in DOMAIN last :
        (last[i].op = "validate_placement" /\ InBoard(last[i].row, last[i].column)) =>
            (last[i].result <=>
                RunCells(last[i].length, last[i].row, last[i].column,
                         last[i].orientation) \subseteq Cells)

\* C9 witness: validate_placement accepted a run that ends on the last row of
\* the board.
C9_Witness ==
    /\ last # << >>
    /\ last[1].op = "validate_placement"
    /\ InBoard(last[1].row, last[1].column)
    /\ last[1].orientation = "V"
    /\ last[1].row + last[1].length = BOARD_SIZE
    /\ last[1].length > 1
    /\ last[1].result = TRUE

\* Some ship still in the fleet locs fits on un-attacked cells of the board a in
\* a run through (r, c).
RemainingShipFits(a, locs, r, c) ==
    \E k \in DOMAIN locs, o \in {"H", "V"}, origin \in Cells :
        LET cells == RunCells(LengthOf(locs[k].ship), origin[1], origin[2], o)
        IN  /\ <<r, c>> \in cells
            /\ cells \subseteq Cells
            /\ \A cell \in cells : ~Attacked(a, cell[1], cell[2])

\* C10: when take_turn rebuilds the probability map, every cell already attacked
\* gets weight 0 and every un-attacked cell through which a remaining ship fits
\* gets a weight of at least 1.
C10_ProbabilityMapWeights ==
    [][ \A i \in DOMAIN last' :
          (/\ last'[i].op = "attack"
           /\ last'[i].by = COMPUTER
           /\ last'[i].mode \in {"probability", "exhausted"})
          => \A cell \in Cells :
                IF Attacked(attack[COMPUTER], cell[1], cell[2])
                THEN probability_map'[cell[1]][cell[2]] = 0
                ELSE RemainingShipFits(attack[COMPUTER], ship_locations[HUMAN],
                                       cell[1], cell[2])
                        => probability_map'[cell[1]][cell[2]] >= 1 ]_vars

\* C10 witness: the map was rebuilt on a board with attacked cells: the attack
\* just made is the only attacked cell whose weight is not 0, and some cell
\* has a weight above 1.
C10_Witness ==
    /\ \E i \in ComputerAttacks : last[i].mode \in {"probability", "exhausted"}
    /\ Cardinality({ cell \in Cells : Attacked(attack[COMPUTER], cell[1], cell[2]) }) >= 3
    /\ \E cell \in Cells : /\ Attacked(attack[COMPUTER], cell[1], cell[2])
                           /\ probability_map[cell[1]][cell[2]] = 0
    /\ \E cell \in Cells : probability_map[cell[1]][cell[2]] > 1

\* The four axis-adjacent neighbours of a cell.
Neighbours(cell) ==
    { <<cell[1] - 1, cell[2]>>, <<cell[1] + 1, cell[2]>>,
      <<cell[1], cell[2] - 1>>, <<cell[1], cell[2] + 1>> }

\* The cells of the board not marked Hit or Miss on the attack board a.
Unattacked(a) == { t \in Cells : ~Attacked(a, t[1], t[2]) }

\* The candidates of the directional hunt around lh: the two neighbours along
\* a known axis, the four neighbours otherwise, on the board and un-attacked.
HuntCandidates(a, lh, dir) ==
    (IF dir = "H" THEN { <<lh[1], lh[2] - 1>>, <<lh[1], lh[2] + 1>> }
     ELSE IF dir = "V" THEN { <<lh[1] - 1, lh[2]>>, <<lh[1] + 1, lh[2]>> }
     ELSE Neighbours(lh)) \cap Unattacked(a)

\* The computer can be asked for a move: the boards take attacks.
ComputerMayMove == phase \in {"play", "dismissed"}

\* The cells a take_turn of the computer can attack from the current state.
PossibleCells ==
    { res.rec.cell :
        res \in ComputerTakeTurn(Computer, grid[HUMAN], ship_locations[HUMAN]) }

\* The records of the computer's attacks in the step just taken.
ComputerAttacksNext ==
    { i \in DOMAIN last' : last'[i].op = "attack" /\ last'[i].by = COMPUTER }

\* C11: with hit_stack empty, last_hit set and direction unknown, the cells the
\* computer may attack are exactly the neighbours of last_hit that are on the
\* board and not yet attacked, whenever there is such a neighbour.
C11_HuntUnknownDirection ==
    [][ (/\ ComputerMayMove
         /\ hit_stack = << >>
         /\ last_hit # None
         /\ direction = NoDirection
         /\ HuntCandidates(attack[COMPUTER], last_hit, NoDirection) # {})
        => /\ PossibleCells = HuntCandidates(attack[COMPUTER], last_hit, NoDirection)
           /\ \A i \in ComputerAttacksNext :
                 last'[i].cell \in HuntCandidates(attack[COMPUTER], last_hit, NoDirection)
      ]_vars

\* C11 witness: a hunt with direction unknown has just missed on a neighbour of
\* last_hit while another neighbour was already a Miss and a third one was
\* still un-attacked.
C11_Witness ==
    \E i \in ComputerAttacks :
        /\ last[i].mode = "hunt"
        /\ last[i].result = "miss"
        /\ direction = NoDirection
        /\ hit_stack = << >>
        /\ last_hit # None
        /\ last[i].cell \in Neighbours(last_hit)
        /\ \E m \in (Neighbours(last_hit) \cap Cells) \ {last[i].cell} :
              attack[COMPUTER][m[1]][m[2]] = "-"
        /\ \E u \in (Neighbours(last_hit) \cap Cells) \ {last[i].cell} :
              ~Attacked(attack[COMPUTER], u[1], u[2])

\* The records of the attacks made (not rejected) in the step just taken.
AttacksNext ==
    { i \in DOMAIN last' : last'[i].op = "attack" /\ last'[i].result # "rejected" }

\* The fleets of ship_locations with no ship left.
EmptyFleets(locs) == { p \in Players : locs[p] = << >> }

\* C12: the game ends in exactly the turn whose attack leaves the attacked
\* side's fleet fully sunk, the winner is the player who made that attack, the
\* game ends with exactly one fleet empty, and no attack is made after the end.
C12_GameEndsAtSinkingAttack ==
    [][ /\ phase = "play" =>
              /\ EmptyFleets(ship_locations) = {}
              /\ (phase' = "over" <=> EmptyFleets(ship_locations') # {})
              /\ phase' = "over" =>
                    /\ last' # << >>
                    /\ last'[Len(last')].op = "attack"
                    /\ last'[Len(last')].result = "hit"
                    /\ last'[Len(last')].by = winner'
                    /\ EmptyFleets(ship_locations') = {1 - winner'}
        /\ phase \in {"over", "dismissed"} =>
              /\ AttacksNext = {}
              /\ attack' = attack \/ phase' = "place"
              /\ Cardinality(EmptyFleets(ship_locations)) = 1
      ]_vars

\* The least element of a non-empty set of numbers.
Least(S) == CHOOSE x \in S : \A y \in S : x <= y

\* The player whose attack comes next by alternation: the human at the start,
\* else the other player than the one who attacked last.
NextAttacker == IF last_attacker = -1 THEN HUMAN ELSE 1 - last_attacker

\* C13: the players attack in strict alternation, the human first: the first
\* attack of a step is by the player next by alternation, a console turn makes
\* one attack and passes the turn on unless it ends the game, and in the GUI an
\* attack of the human that does not win is followed in the same handler by
\* exactly one attack of the computer.
C13_StrictAlternation ==
    [][ /\ phase = "place" => AttacksNext = {}
        /\ (ComputerMayMove /\ AttacksNext # {}) =>
              /\ last'[Least(AttacksNext)].by = NextAttacker
              /\ \A i \in AttacksNext :
                    (i + 1) \in DOMAIN last' =>
                        /\ (i + 1) \in AttacksNext
                        /\ last'[i + 1].by = 1 - last'[i].by
              /\ ui = "console" =>
                    /\ Cardinality(AttacksNext) = 1
                    /\ current_player = last'[Least(AttacksNext)].by
                    /\ phase' = "play" => current_player' = 1 - current_player
              /\ ui = "gui" =>
                    /\ Cardinality(AttacksNext) <= 2
                    /\ (Cardinality(AttacksNext) = 1) <=>
                          (phase' = "over" /\ winner' = HUMAN)
      ]_vars

\* The hunt around last_hit has a candidate left on the computer's attack board.
HuntOpen ==
    /\ last_hit # None
    /\ HuntCandidates(attack[COMPUTER], last_hit, direction) # {}

\* C14: a computer turn that starts with hit_stack non-empty attacks its oldest
\* entry, whatever last_hit and direction are, and removes it, keeping the order
\* of the rest; the directional hunt is used only with hit_stack empty and
\* last_hit set, and the probability map only with hit_stack empty and last_hit
\* none or the hunt exhausted.
C14_QueueFirstThenHuntThenProbability ==
    [][ \A i \in ComputerAttacksNext :
          /\ hit_stack # << >> =>
                /\ last'[i].mode = "queue"
                /\ last'[i].cell = Head(hit_stack)
                /\ Len(hit_stack') >= Len(hit_stack) - 1
                /\ SubSeq(hit_stack', 1, Len(hit_stack) - 1) = Tail(hit_stack)
          /\ last'[i].mode = "hunt" =>
                /\ hit_stack = << >>
                /\ HuntOpen
                /\ last'[i].cell \in HuntCandidates(attack[COMPUTER], last_hit, direction)
          /\ last'[i].mode = "exhausted" =>
                (hit_stack = << >> /\ last_hit # None /\ ~HuntOpen)
          /\ last'[i].mode = "probability" => (hit_stack = << >> /\ last_hit = None)
          /\ probability_map' # probability_map =>
                (hit_stack = << >> /\ ~HuntOpen)
          /\ (hit_stack = << >> /\ HuntOpen) => last'[i].mode = "hunt"
          /\ (hit_stack = << >> /\ ~HuntOpen) =>
                /\ last'[i].mode \in {"probability", "exhausted"}
                /\ \A cell \in Cells :
                      probability_map'[cell[1]][cell[2]] <=
                          probability_map'[last'[i].cell[1]][last'[i].cell[2]]
      ]_vars

\* C14 witness: the computer has just popped a cell from a hit_stack that held
\* two cells or more, a different cell is now at its head, and last_hit and
\* direction are set.
C14_Witness ==
    \E i \in ComputerAttacks :
        /\ last[i].mode = "queue"
        /\ last[i].queued >= 2
        /\ hit_stack # << >>
        /\ hit_stack[1] # last[i].cell
        /\ last_hit # None
        /\ direction # NoDirection

\* C15: with hit_stack empty, last_hit set and direction known, the cell the
\* computer attacks is one of the two cells next to last_hit along that axis
\* that is on the board and not yet attacked, whenever there is one; no cell
\* off the axis is chosen.
C15_HuntKnownDirection ==
    [][ (/\ hit_stack = << >>
         /\ last_hit # None
         /\ direction # NoDirection
         /\ HuntCandidates(attack[COMPUTER], last_hit, direction) # {})
        => /\ PossibleCells = HuntCandidates(attack[COMPUTER], last_hit, direction)
           /\ \A i \in ComputerAttacksNext :
                 /\ last'[i].mode = "hunt"
                 /\ last'[i].cell \in Neighbours(last_hit) \cap Cells
                 /\ ~Attacked(attack[COMPUTER], last'[i].cell[1], last'[i].cell[2])
                 /\ direction = "H" => last'[i].cell[1] = last_hit[1]
                 /\ direction = "V" => last'[i].cell[2] = last_hit[2]
      ]_vars

\* In a game the case of C15 does not arise: whenever hit_stack is empty and
\* direction is known, both cells next to last_hit along the axis are attacked
\* or off the board.
KnownDirectionHuntNeverOpenInGame ==
    (hit_stack = << >> /\ last_hit # None /\ direction # NoDirection)
        => HuntCandidates(attack[COMPUTER], last_hit, direction) = {}

\* C15 witness: a hunt along a Vertical axis has just missed on a cell above or
\* below last_hit while the cell on its other side was open and a cell beside
\* last_hit, off the axis, was open too.
C15_Witness ==
    \E i \in ComputerAttacks :
        /\ last[i].mode = "hunt"
        /\ last[i].result = "miss"
        /\ last[i].queued = 0
        /\ direction = "V"
        /\ last_hit # None
        /\ last[i].cell[2] = last_hit[2]
        /\ HuntCandidates(attack[COMPUTER], last_hit, "V") # {}
        /\ HuntCandidates(attack[COMPUTER], last_hit, "H") # {}

\* The first cell in row-major order among the cells of greatest weight of pm.
FirstMaxCell(pm) ==
    CHOOSE cell \in Cells :
        \A other \in Cells :
            \/ pm[other[1]][other[2]] < pm[cell[1]][cell[2]]
            \/ /\ pm[other[1]][other[2]] = pm[cell[1]][cell[2]]
               /\ other[1] * BOARD_SIZE + other[2] >= cell[1] * BOARD_SIZE + cell[2]

\* C16: when hit_stack is empty, last_hit is set and no candidate of the hunt is
\* left, take_turn clears last_hit, direction and hit_stack and attacks, in the
\* same turn, the cell chosen from the probability map it has just rebuilt (a
\* hit on that cell then counts as a first hit).
C16_ExhaustedHuntFallsThrough ==
    [][ (hit_stack = << >> /\ last_hit # None /\ ~HuntOpen) =>
          \A i \in ComputerAttacksNext :
              /\ last'[i].mode = "exhausted"
              /\ probability_map' = update_probability_map(attack[COMPUTER])
              /\ last'[i].cell = FirstMaxCell(probability_map')
              /\ direction' = NoDirection
              /\ hit_stack' = << >>
              /\ last_hit' = IF last'[i].result = "hit" THEN last'[i].cell ELSE None
      ]_vars

\* C16 witness: a hunt along a known axis ran out of candidates and the cell
\* taken from the rebuilt map was a miss, so the hunt state is clear.
C16_Witness ==
    \E i \in ComputerAttacks :
        /\ last[i].mode = "exhausted"
        /\ last[i].result = "miss"
        /\ last[i].queued = 0
        /\ last_hit = None
        /\ direction = NoDirection
        /\ hit_stack = << >>
        /\ probability_map[last[i].cell[1]][last[i].cell[2]] >= 1

\* The triples (ship still in the fleet locs, orientation, origin) whose run of
\* the ship's length lies on the board, has no attacked cell of a and covers
\* the cell (r, c).
RemainingTriples(a, locs, r, c) ==
    { t \in (DOMAIN locs) \X {"H", "V"} \X Cells :
        LET cells == RunCells(LengthOf(locs[t[1]].ship), t[3][1], t[3][2], t[2])
        IN  /\ <<r, c>> \in cells
            /\ cells \subseteq Cells
            /\ \A cell \in cells : ~Attacked(a, cell[1], cell[2]) }

\* C17: when take_turn rebuilds the probability map, the weight of every
\* un-attacked cell is 1 plus the number of placements of the ships still in the
\* opponent's fleet that fit on un-attacked cells and cover it; ships already
\* sunk add nothing.
C17_WeightsCountRemainingShips ==
    [][ \A i \in DOMAIN last' :
          (/\ last'[i].op = "attack"
           /\ last'[i].by = COMPUTER
           /\ last'[i].mode \in {"probability", "exhausted"})
          => \A cell \in Unattacked(attack[COMPUTER]) :
                probability_map'[cell[1]][cell[2]] =
                    1 + Cardinality(RemainingTriples(attack[COMPUTER],
                                        ship_locations[HUMAN], cell[1], cell[2]))
      ]_vars

\* What the code computes instead: the weight of an un-attacked cell counts the
\* placements of every ship type of the configuration, sunk or not.
WeightsCountEveryShipType ==
    [][ \A i \in DOMAIN last' :
          (/\ last'[i].op = "attack"
           /\ last'[i].by = COMPUTER
           /\ last'[i].mode \in {"probability", "exhausted"})
          => \A cell \in Unattacked(attack[COMPUTER]) :
                probability_map'[cell[1]][cell[2]] =
                    1 + Cardinality(RemainingTriples(attack[COMPUTER],
                                        SHIP_TYPES,
                                        cell[1], cell[2]))
      ]_vars

\* The position of a cell in the row-major scan of the board.
ScanOrder(cell) == cell[1] * BOARD_SIZE + cell[2]

\* C18: when take_turn selects from the probability map, the map is the one
\* rebuilt from the attack board alone, the attacked cell has its greatest
\* weight and no cell before it in row-major order has that weight, so the
\* attack board determines the cell.
C18_ProbabilityModeFirstMaximum ==
    [][ \A i \in ComputerAttacksNext :
          last'[i].mode \in {"probability", "exhausted"} =>
             LET cell == last'[i].cell
                 weight == probability_map'[cell[1]][cell[2]]
             IN  /\ probability_map' = update_probability_map(attack[COMPUTER])
                 /\ \A other \in Cells :
                       /\ probability_map'[other[1]][other[2]] <= weight
                       /\ probability_map'[other[1]][other[2]] = weight
                             => ScanOrder(cell) <= ScanOrder(other)
      ]_vars

\* C18 witness: the map was rebuilt and several cells shared its greatest
\* weight; the attacked one is the first of them, and it is not the first cell
\* of the board.
C18_Witness ==
    \E i \in ComputerAttacks :
        /\ last[i].mode = "probability"
        /\ ScanOrder(last[i].cell) > 0
        /\ \E other \in Cells :
              /\ other # last[i].cell
              /\ probability_map[other[1]][other[2]] =
                    probability_map[last[i].cell[1]][last[i].cell[2]]
        /\ \A other \in Cells :
              probability_map[other[1]][other[2]] <=
                    probability_map[last[i].cell[1]][last[i].cell[2]]

\* last_hit as the hit processing of the turn recorded in rec finds it: a hunt
\* that ran out of candidates has cleared it before the attack is made.
LastHitAtHit(rec) == IF rec.mode = "exhausted" THEN None ELSE last_hit

\* C19: after a hit scored while last_hit is set, direction is Horizontal if the
\* hit shares its row with last_hit and Vertical if it shares its column with
\* it; after a hit scored while last_hit is none, direction is unknown.
C19_DirectionInference ==
    [][ \A i \in ComputerAttacksNext :
          last'[i].result = "hit" =>
             LET previous == LastHitAtHit(last'[i])
                 cell == last'[i].cell
             IN  IF previous = None
                 THEN direction' = NoDirection
                 ELSE /\ cell[1] = previous[1] => direction' = "H"
                      /\ cell[2] = previous[2] => direction' = "V"
      ]_vars

\* What the code does: the row is tested first, so a hit on last_hit itself,
\* which a cell queued twice brings about, counts as Horizontal.
DirectionInferenceRowFirst ==
    [][ \A i \in ComputerAttacksNext :
          last'[i].result = "hit" =>
             LET previous == LastHitAtHit(last'[i])
                 cell == last'[i].cell
             IN  IF previous = None
                 THEN direction' = NoDirection
                 ELSE /\ cell[1] = previous[1] => direction' = "H"
                      /\ (cell[2] = previous[2] /\ cell[1] # previous[1])
                            => direction' = "V"
                      /\ (cell[1] # previous[1] /\ cell[2] # previous[2])
                            => direction' = direction
      ]_vars

\* Within the first attack on each cell the claim of C19 holds.
DirectionInferenceOnFreshCells ==
    [][ \A i \in ComputerAttacksNext :
          (last'[i].result = "hit" /\ last'[i].fresh) =>
             LET previous == LastHitAtHit(last'[i])
                 cell == last'[i].cell
             IN  IF previous = None
                 THEN direction' = NoDirection
                 ELSE /\ cell[1] = previous[1] => direction' = "H"
                      /\ cell[2] = previous[2] => direction' = "V"
      ]_vars

\* The two cells just beyond the ends of the segment from previous to cell along
\* the axis dir.
SegmentEnds(previous, cell, dir) ==
    IF dir = "H"
    THEN LET columns == {previous[2], cell[2]}
         IN  { <<cell[1], Least(columns) - 1>>,
               <<cell[1], (CHOOSE c \in columns : \A d \in columns : d <= c) + 1>> }
    ELSE LET rows == {previous[1], cell[1]}
         IN  { <<Least(rows) - 1, cell[2]>>,
               <<(CHOOSE r \in rows : \A d \in rows : d <= r) + 1, cell[2]>> }

\* C20: after a hit scored while last_hit is set, hit_stack is what the turn left
\* of it followed by exactly the cells beyond the two ends of the segment from
\* last_hit to the hit, along the inferred axis, that are on the board and not
\* yet attacked; after a hit scored while last_hit is none nothing is appended.
\* In both cases last_hit becomes the cell hit.
C20_FollowUpHitExtendsLine ==
    [][ \A i \in ComputerAttacksNext :
          last'[i].result = "hit" =>
             LET previous == LastHitAtHit(last'[i])
                 cell == last'[i].cell
                 kept == IF last'[i].queued > 0 THEN Tail(hit_stack) ELSE hit_stack
                 appended == SubSeq(hit_stack', Len(kept) + 1, Len(hit_stack'))
             IN  /\ last_hit' = cell
                 /\ Len(hit_stack') >= Len(kept)
                 /\ SubSeq(hit_stack', 1, Len(kept)) = kept
                 /\ IF previous = None
                    THEN appended = << >>
                    ELSE /\ Range(appended) =
                               SegmentEnds(previous, cell, direction')
                                  \cap Unattacked(attack'[COMPUTER])
                         /\ Len(appended) = Cardinality(Range(appended))
      ]_vars

\* C20 witness: a hunt from last_hit scored a second hit in the middle of the
\* board and both cells beyond the ends of the segment were queued.
C20_Witness ==
    \E i \in ComputerAttacks :
        /\ last[i].mode = "hunt"
        /\ last[i].result = "hit"
        /\ last_hit = last[i].cell
        /\ direction \in {"H", "V"}
        /\ Len(hit_stack) = 2
        /\ hit_stack[1] # hit_stack[2]
        /\ \A k \in 1 .. 2 : ~Attacked(attack[COMPUTER], hit_stack[k][1], hit_stack[k][2])

\* C21: after a miss of the computer the attacked cell is Miss on its attack
\* board, and last_hit, direction and hit_stack are what the selection of the
\* cell left: unchanged but for the popped head when the cell came from
\* hit_stack, and cleared when the selection reset an exhausted hunt. The
\* opponent's fleet is unchanged.
C21_MissKeepsHuntState ==
    [][ \A i \in ComputerAttacksNext :
          last'[i].result = "miss" =>
             LET cell == last'[i].cell
                 exhausted == last'[i].mode = "exhausted"
             IN  /\ attack'[COMPUTER][cell[1]][cell[2]] = "-"
                 /\ last_hit' = IF exhausted THEN None ELSE last_hit
                 /\ direction' = IF exhausted THEN NoDirection ELSE direction
                 /\ hit_stack' = IF exhausted THEN << >>
                                 ELSE IF last'[i].queued > 0 THEN Tail(hit_stack)
                                 ELSE hit_stack
                 /\ ship_locations'[HUMAN] = ship_locations[HUMAN]
                 /\ grid' = grid
      ]_vars

\* C21 witness: a cell popped from hit_stack was a miss while a hunt with a
\* known direction was on; last_hit, the direction and the rest of the queue
\* are still there.
C21_Witness ==
    \E i \in ComputerAttacks :
        /\ last[i].mode = "queue"
        /\ last[i].result = "miss"
        /\ attack[COMPUTER][last[i].cell[1]][last[i].cell[2]] = "-"
        /\ last_hit # None
        /\ direction \in {"H", "V"}
        /\ hit_stack # << >>

\* The cells player p attacked in the step just taken.
AttackedNextBy(p) ==
    { last'[i].cell : i \in { j \in AttacksNext : last'[j].by = p } }

\* The cells of player p's attack board that the step just taken changed.
ChangedCells(p) ==
    { cell \in Cells : attack'[p][cell[1]][cell[2]] # attack[p][cell[1]][cell[2]] }

\* C22: a turn changes, of the player who takes it, exactly one cell of the
\* attack board and (for the computer) the hunt state, and of the opponent the
\* fleet's coordinates only: the ship grids, the fleet of a player who was not
\* attacked, the attack board and the hunt state of a player who did not attack
\* stay as they were.
C22_TurnChangesOwnBoardOnly ==
    [][ AttacksNext # {} =>
          /\ grid' = grid
          /\ \A p \in Players :
                /\ Cardinality(AttackedNextBy(p)) <= 1
                /\ ChangedCells(p) = AttackedNextBy(p)
                /\ AttackedNextBy(1 - p) = {} => ship_locations'[p] = ship_locations[p]
          /\ AttackedNextBy(COMPUTER) = {} => UNCHANGED hunt
      ]_vars

\* What holds of the code: the same frame, with the attacked cell the only one
\* that can change, which an attack on a cell already marked leaves as it was.
TurnChangesAtMostOwnCell ==
    [][ AttacksNext # {} =>
          /\ grid' = grid
          /\ \A p \in Players :
                /\ Cardinality(AttackedNextBy(p)) <= 1
                /\ ChangedCells(p) \subseteq AttackedNextBy(p)
                /\ \A cell \in AttackedNextBy(p) \ ChangedCells(p) :
                      /\ p = COMPUTER
                      /\ Attacked(attack[p], cell[1], cell[2])
                /\ AttackedNextBy(1 - p) = {} => ship_locations'[p] = ship_locations[p]
          /\ AttackedNextBy(COMPUTER) = {} => UNCHANGED hunt
      ]_vars

\* take_turn can be called: the opponent's fleet is placed and has a ship left.
TakeTurnCallable ==
    /\ current_ship_index >= Len(SHIP_TYPES)
    /\ ~all_ships_sunk(ship_locations[HUMAN])

\* C23: take_turn always has a cell to attack and each call makes exactly one
\* attack; and in every run in which take_turn keeps being called against a
\* placed fleet (weak fairness of the call, the hypothesis of the claim), every
\* ship of that fleet is sunk after finitely many calls, whatever calls of
\* get_move and update_probability_map come in between.
C23_TakeTurnCompletesAndFinishesFleet ==
    /\ [](TakeTurnCallable => PossibleCells # {})
    /\ [][ (ComputerAttacksNext # {} \/ attack'[COMPUTER] # attack[COMPUTER]
              \/ hit_stack' # hit_stack)
           => /\ Cardinality(ComputerAttacksNext) = 1
              /\ Len(last') = 1
              /\ Cardinality(ChangedCells(COMPUTER)) <= 1 ]_vars
    /\ WF_vars(CallTakeTurn) =>
          ((current_ship_index >= Len(SHIP_TYPES))
              ~> (current_ship_index >= Len(SHIP_TYPES)
                    /\ all_ships_sunk(ship_locations[HUMAN])))

\* C23 witness: the last ship of the fleet went down on a turn of the computer
\* that followed a repeated attack, with cells of the board still un-attacked.
C23_Witness ==
    /\ ui = "unit"
    /\ current_ship_index >= Len(SHIP_TYPES)
    /\ all_ships_sunk(ship_locations[HUMAN])
    /\ \E i \in ComputerAttacks : last[i].result = "hit" /\ last[i].sunk
    /\ Unattacked(attack[COMPUTER]) # {}

\* Every mark of the attack boards agrees with the opponent's ship grid.
MarksAgreeWithShips ==
    \A p \in Players, cell \in Cells :
        /\ attack[p][cell[1]][cell[2]] = "X" => grid[1 - p][cell[1]][cell[2]] = "X"
        /\ attack[p][cell[1]][cell[2]] = "-" => grid[1 - p][cell[1]][cell[2]] # "X"

\* C24: on each player's attack board a cell is Hit only where the opponent's
\* ship grid holds a ship and Miss only where it holds none, and within a game
\* a cell that is marked keeps its mark (restart_game builds new boards).
C24_AttackMarksSoundAndStable ==
    /\ []MarksAgreeWithShips
    /\ [][ ~(phase = "over" /\ phase' = "place") =>
             \A p \in Players, cell \in Cells :
                 Attacked(attack[p], cell[1], cell[2])
                    => attack'[p][cell[1]][cell[2]] = attack[p][cell[1]][cell[2]]
         ]_vars

\* C24 witness: the computer has attacked again a cell it had marked Miss, the
\* cell is still Miss, and both attack boards hold a Hit and a Miss.
C24_Witness ==
    /\ \E i \in ComputerAttacks :
          /\ ~last[i].fresh
          /\ attack[COMPUTER][last[i].cell[1]][last[i].cell[2]] = "-"
    /\ \A p \in Players :
          /\ \E cell \in Cells : attack[p][cell[1]][cell[2]] = "X"
          /\ \E cell \in Cells : attack[p][cell[1]][cell[2]] = "-"

\* The cells marked Hit on the attack board a.
HitCells(a) == { cell \in Cells : a[cell[1]][cell[2]] = "X" }

\* The fleet of player p agrees with the hits on the opponent's attack board:
\* a ship in the fleet holds its deployed cells that are not Hit, and a deployed
\* ship is out of the fleet exactly when all its deployed cells are Hit.
FleetAgreesWithHits(p) ==
    LET hits == HitCells(attack[1 - p]) IN
    /\ ShipNames(ship_locations[p]) \subseteq ShipNames(deployed[p])
    /\ \A k \in DOMAIN ship_locations[p] :
          Range(ship_locations[p][k].positions) =
              Range(PositionsOf(deployed[p], ship_locations[p][k].ship)) \ hits
    /\ \A k \in DOMAIN deployed[p] :
          (deployed[p][k].ship \notin ShipNames(ship_locations[p]))
              <=> (Range(deployed[p][k].positions) \subseteq hits)

\* C25: in every state the coordinates left of each ship in a fleet are its
\* deployed cells less the cells marked Hit on the opponent's attack board, a
\* deployed ship is out of the fleet iff all its deployed cells are Hit there,
\* and in the attack phase a ship that left a fleet does not come back.
C25_FleetMatchesHits ==
    /\ [](\A p \in Players : FleetAgreesWithHits(p))
    /\ [][ (phase \in {"play", "dismissed"}) =>
             \A p \in Players :
                 ShipNames(ship_locations'[p]) \subseteq ShipNames(ship_locations[p])
         ]_vars

\* C25 witness: in the attack phase one ship of the human's fleet is sunk and
\* the other has lost some of its cells but not all, and the same holds of the
\* computer's fleet.
C25_Witness ==
    /\ phase = "play"
    /\ \A p \in Players :
          /\ Len(deployed[p]) = Len(SHIP_TYPES)
          /\ Len(ship_locations[p]) = 1
          /\ Len(ship_locations[p][1].positions) >= 1
          /\ Len(ship_locations[p][1].positions)
                < LengthOf(ship_locations[p][1].ship)

\* C26: hit_stack never holds the same coordinate twice.
C26_HitStackHoldsNoDuplicate ==
    \A i, j \in DOMAIN hit_stack : hit_stack[i] = hit_stack[j] => i = j

\* What holds of the cells a follow-up hit appends: they are on the board,
\* un-attacked at that moment and differ from one another; a cell already
\* waiting in hit_stack is not held back.
AppendedCellsFreshAndDistinct ==
    [][ \A i \in ComputerAttacksNext :
          last'[i].result = "hit" =>
             LET kept == IF last'[i].queued > 0 THEN Tail(hit_stack) ELSE hit_stack
                 appended == SubSeq(hit_stack', Len(kept) + 1, Len(hit_stack'))
             IN  /\ Range(appended) \subseteq Unattacked(attack'[COMPUTER])
                 /\ Len(appended) = Cardinality(Range(appended))
      ]_vars

\* The axis of the line through two cells that share exactly one of row and
\* column; "None" when they share both or neither.
AxisThrough(a, b) ==
    IF a[1] = b[1] /\ a[2] # b[2] THEN "H"
    ELSE IF a[2] = b[2] /\ a[1] # b[1] THEN "V"
    ELSE NoDirection

\* C27: a hit the computer scores while last_hit is set is on another cell than
\* last_hit, in the same row or the same column, and the direction stored after
\* it is the axis of the line through last_hit and the hit.
C27_FollowUpHitOnLineThroughLastHit ==
    [][ \A i \in ComputerAttacksNext :
          (last'[i].result = "hit" /\ LastHitAtHit(last'[i]) # None) =>
             /\ last'[i].cell # last_hit
             /\ AxisThrough(last_hit, last'[i].cell) \in {"H", "V"}
             /\ direction' = AxisThrough(last_hit, last'[i].cell)
      ]_vars

\* What holds of the code: a follow-up hit is always in the row or the column of
\* last_hit and leaves a known direction, and when the cell hit had not been
\* attacked before it is another cell than last_hit and the direction is the
\* axis through the two.
FollowUpHitInRowOrColumn ==
    [][ \A i \in ComputerAttacksNext :
          (last'[i].result = "hit" /\ LastHitAtHit(last'[i]) # None) =>
             /\ last'[i].cell[1] = last_hit[1] \/ last'[i].cell[2] = last_hit[2]
             /\ direction' \in {"H", "V"}
             /\ last'[i].fresh =>
                   /\ last'[i].cell # last_hit
                   /\ direction' = AxisThrough(last_hit, last'[i].cell)
      ]_vars

====
